---- MODULE Spec2Model ----
(***************************************************************************)
(* Orders-to-Cash statement reconciliation.                                *)
(*                                                                         *)
(* Dates are day numbers: day 0 is Monday 2025-10-20, so d % 7 is Python's *)
(* date.weekday() (0 = Monday .. 6 = Sunday); day 12 is Sat 2025-11-01 and *)
(* day 41 is Sun 2025-11-30.  Money is in thousandths of a pound, so that  *)
(* rounding to 2 decimals (whole pence) is an operation that does work.    *)
(* Order references are naturals; 0 is the empty string that the cleaning  *)
(* of a blank / non-digit reference produces.                              *)
(***************************************************************************)
EXTENDS Integers, Sequences, FiniteSets, TLC

VARIABLES
    acc_start,          \* accounting period start (first day of the month)
    acc_end,            \* accounting period end (last day of the month)
    pdf_folder,         \* week-start dates in the names of the "JE Statement" PDFs
    stmt_start,         \* statement window start
    stmt_end_monday,    \* Monday of the last statement week
    stmt_end_sunday,    \* statement window end
    accrual_start,      \* accrual window start, or None
    accrual_end,        \* accrual window end, or None
    period_pc,          \* position of the period calculation
    dwh_df,             \* Just Eat: ledger (DWH) rows as loaded and cleaned
    je_df,              \* Just Eat: statement transactions (JE Order Level Detail)
    final_df,           \* Just Eat: the reconciliation dataset written
    je_pc,              \* Just Eat: position of run_je_reconciliation
    var_df,             \* calculate_variances: the dataset handed in
    var_out,            \* calculate_variances: the dataset returned
    var_pc,             \* which calculate_variances has run
    dr_df,              \* Deliveroo: statement rows (Deliveroo Combined)
    dr_dwh_df,          \* Deliveroo: ledger (DWH) rows
    dr_matched_df,      \* Deliveroo: result of match_deliveroo_orders
    dr_pc,              \* Deliveroo: position of the matching
    run_provider,       \* repeated runs: "je" or "dr"
    ledger_files,       \* repeated runs: the CSV files of the ledger folder
    extract_present,    \* repeated runs: the step-1 extract file exists
    recon_file,         \* repeated runs: the reconciliation output file
    run_results,        \* repeated runs: what each run returned and left on disk
    segment_text,       \* extract_amounts: the segment, as its money and text tokens
    amounts_out,        \* extract_amounts: the amounts returned
    amounts_pc,         \* extract_amounts: position
    df_full,            \* statement PDF: the adjustment entries (build_refund_dataframe)
    pdf_rows,           \* statement PDF: the Refund/Commission/Marketing rows emitted
    pdf_pc,             \* statement PDF: position of the aggregation
    batch_provider,     \* parser run: "je" or "dr"
    batch_docs,         \* parser run: the documents of the statement folder
    batch_file,         \* parser run: the consolidated output file
    batch_result,       \* parser run: how the run ended
    csv_lines,          \* Deliveroo CSV: the non-empty lines of one file
    csv_sections,       \* Deliveroo CSV: what parse_deliveroo_csv returned
    csv_pc,             \* Deliveroo CSV: position
    cols_in,            \* column assembly: column labels of the frame handed to finalise_columns
    cols_out,           \* column assembly: columns of the returned frame
    cols_pc,            \* column assembly: position
    desc_lines,         \* descriptions: lines of the segment text
    desc_out,           \* descriptions: outcome of extract_descriptions
    desc_pc,            \* descriptions: position
    mfc_files,          \* Deliveroo Step 1: the statement files in the CSV folder
    mfc_scanned,        \* Deliveroo Step 1: the files as the last scan for unmapped names found them
    mfc_mapping,        \* Deliveroo Step 1: the restaurant names the saved MFC mapping has an entry for
    mfc_unmapped,       \* Deliveroo Step 1: the list the last scan returned
    mfc_parser,         \* Deliveroo Step 1: whether the parser thread was started, and with which mapping
    mfc_pc,             \* Deliveroo Step 1: position of the click handler
    bt_folder,          \* Braintree: the CSV files in the folder (content identity, earliest transaction date, name)
    bt_runs,            \* Braintree: number of rename runs made
    bt_pc,              \* Braintree: position
    nav_history,        \* Navigator: _history, the page names of its entries
    nav_index,          \* Navigator: _history_index (0-based, -1 when empty)
    nav_page,           \* Navigator: current_page and previous_page of the app state
    nav_last,           \* Navigator: the last call and the one before it, with what they returned
    hand_provider,      \* hand-off: the provider whose steps run
    hand_window,        \* hand-off: stmt_start, stmt_end_monday, stmt_end_sunday of both steps
    hand_dates,         \* hand-off: the dates in the names of the statement files in the input folder
    hand_output,        \* hand-off: the names of the files in the consolidated output folder
    hand_step1,         \* hand-off: the file Step 1 returned
    hand_step2,         \* hand-off: the file Step 2 loaded
    hand_pc,            \* hand-off: position
    btn_state,          \* Just Eat Step 1 button: its Tk state
    btn_threads,        \* Just Eat Step 1 button: the background runs in progress, each with its position
    btn_log,            \* Just Eat Step 1 button: how the runs that ended came out
    btn_pc              \* Just Eat Step 1 button: whether the page is shown

periodVars == <<acc_start, acc_end, pdf_folder, stmt_start, stmt_end_monday,
                stmt_end_sunday, accrual_start, accrual_end, period_pc>>
jeVars == <<dwh_df, je_df, final_df, je_pc>>
varVars == <<var_df, var_out, var_pc>>
drVars == <<dr_df, dr_dwh_df, dr_matched_df, dr_pc>>
runVars == <<run_provider, ledger_files, extract_present, recon_file, run_results>>
amountVars == <<segment_text, amounts_out, amounts_pc>>
pdfVars == <<df_full, pdf_rows, pdf_pc>>
batchVars == <<batch_provider, batch_docs, batch_file, batch_result>>
csvVars == <<csv_lines, csv_sections, csv_pc>>
colVars == <<cols_in, cols_out, cols_pc>>
descVars == <<desc_lines, desc_out, desc_pc>>
mfcVars == <<mfc_files, mfc_scanned, mfc_mapping, mfc_unmapped, mfc_parser, mfc_pc>>
btVars == <<bt_folder, bt_runs, bt_pc>>
navVars == <<nav_history, nav_index, nav_page, nav_last>>
handVars == <<hand_provider, hand_window, hand_dates, hand_output, hand_step1, hand_step2, hand_pc>>
btnVars == <<btn_state, btn_threads, btn_log, btn_pc>>
moreVars == <<colVars, descVars, mfcVars, btVars, navVars, handVars, btnVars>>
baseVars == <<periodVars, jeVars, varVars, drVars, runVars, amountVars, pdfVars, batchVars, csvVars>>
extVars == <<runVars, amountVars, pdfVars, batchVars, csvVars, moreVars>>
vars == <<periodVars, jeVars, varVars, drVars, extVars>>

(***************************************************************************)
(* Bounds of the model.                                                    *)
(***************************************************************************)
MaxPdfs == 3            \* statement PDFs in the folder
MaxLedgerRows == 2      \* rows of a ledger extract
MaxStmtRows == 2        \* rows of a statement extract
MaxVarRows == 2         \* rows handed to calculate_variances on its own
MaxLedgerFiles == 2     \* CSV files in the ledger folder
MaxRuns == 2            \* reconciliation runs on the same inputs
MaxTokens == 3          \* money and text tokens in a statement segment
MaxEntries == 3         \* adjustment entries in one statement PDF
MaxLines == 5           \* non-empty lines of one Deliveroo statement CSV
MaxDocs == 3            \* statement documents in the folder of a parser run

(***************************************************************************)
(* Missing values.                                                         *)
(***************************************************************************)
None == -1              \* Python None for an absent date
NaN == -999999999       \* pandas missing value in a numeric / key column
NaNStr == "NaN"         \* pandas missing value in a label column
Blank == 0              \* the cleaned form of a blank reference: the empty string

(***************************************************************************)
(* Generic helpers.                                                        *)
(***************************************************************************)
Min(a, b) == IF a <= b THEN a ELSE b

Abs(x) == IF x < 0 THEN 0 - x ELSE x

SetMin(S) == CHOOSE x \in S : \A y \in S : x <= y

SetMax(S) == CHOOSE x \in S : \A y \in S : y <= x

RECURSIVE Flatten(_)
Flatten(ss) == IF ss = <<>> THEN <<>> ELSE Head(ss) \o Flatten(Tail(ss))

RECURSIVE SumSeq(_)
SumSeq(s) == IF s = <<>> THEN 0 ELSE Head(s) + SumSeq(Tail(s))

SeqsUpTo(S, n) == UNION {[1..k -> S] : k \in 0..n}

(***************************************************************************)
(* core/C07_datetime_utils week helpers.                                   *)
(***************************************************************************)
Weekday(d) == d % 7

get_start_of_week(d) == d - Weekday(d)

get_end_of_week(d) == get_start_of_week(d) + 6

(***************************************************************************)
(* I02_project_shared_functions: period calculation.                       *)
(***************************************************************************)
statement_overlaps_range(s, e, range_start, range_end) ==
    ~(e < range_start \/ s > range_end)

\* (first_monday, last_monday) of the PDFs overlapping the period, or (None, None)
get_je_statement_coverage(folder, a_start, a_end) ==
    LET mondays_in_period ==
            {w \in folder : statement_overlaps_range(w, w + 6, a_start, a_end)}
    IN  IF mondays_in_period = {}
        THEN <<None, None>>
        ELSE <<SetMin(mondays_in_period), SetMax(mondays_in_period)>>

\* mutant: the window starts at the first PDF instead of the accounting-start week
calculate_statement_period_from_first(a_start, a_end, folder) ==
    LET cov == get_je_statement_coverage(folder, a_start, a_end)
        acc_end_monday == get_start_of_week(a_end)
    IN  IF cov[1] = None \/ cov[2] = None
        THEN <<get_start_of_week(a_start), acc_end_monday, acc_end_monday + 6>>
        ELSE <<cov[1], Min(cov[2], acc_end_monday), Min(cov[2], acc_end_monday) + 6>>

\* (stmt_start, stmt_end_monday, stmt_end_sunday)
calculate_statement_period(a_start, a_end, folder) ==
    LET acc_start_monday == get_start_of_week(a_start)
        acc_end_monday == get_start_of_week(a_end)
        cov == get_je_statement_coverage(folder, a_start, a_end)
        first_monday == cov[1]
        last_monday == cov[2]
        start == acc_start_monday
        end_monday == IF first_monday = None \/ last_monday = None
                      THEN acc_end_monday
                      ELSE Min(last_monday, acc_end_monday)
    IN  <<start, end_monday, end_monday + 6>>

\* mutant: > in place of >=
calculate_accrual_period_strict(a_end, end_sunday) ==
    IF end_sunday > a_end
    THEN <<None, None>>
    ELSE <<end_sunday + 1, a_end>>

\* (accrual_start, accrual_end), or (None, None) when no accrual is needed
calculate_accrual_period(a_end, end_sunday) ==
    IF end_sunday >= a_end
    THEN <<None, None>>
    ELSE <<end_sunday + 1, a_end>>

(***************************************************************************)
(* JE02_data_reconciliation: rows.                                         *)
(*                                                                         *)
(* A ledger row carries gp_order_id (the canonical order id, unique per    *)
(* ledger order), mp_order_id (the cleaned marketplace reference),         *)
(* order_completed, created_at_day and two money columns.  A statement row *)
(* carries je_order_id, transaction_type, je_total and je_refund.  A row   *)
(* of the reconciliation dataset carries all of these columns plus         *)
(* order_category, matched_amount and amount_variance; a column a row has  *)
(* no value for holds NaN.                                                 *)
(***************************************************************************)
BlankRow ==
    [je_order_id |-> NaN, transaction_type |-> NaNStr, je_total |-> NaN,
     je_refund |-> NaN, order_category |-> NaNStr, gp_order_id |-> NaN,
     mp_order_id |-> NaN, order_completed |-> NaN, created_at_day |-> NaN,
     total_payment_with_tips_inc_vat |-> NaN, total_payment_inc_vat |-> NaN,
     matched_amount |-> NaNStr, amount_variance |-> NaN]

\* the statement columns of a row
WithStatement(row, t) ==
    [row EXCEPT !.je_order_id = t.je_order_id,
                !.transaction_type = t.transaction_type,
                !.je_total = t.je_total,
                !.je_refund = t.je_refund]

\* every ledger column of a row (dwh_df)
WithLedger(row, d) ==
    [row EXCEPT !.gp_order_id = d.gp_order_id,
                !.mp_order_id = d.mp_order_id,
                !.order_completed = d.order_completed,
                !.created_at_day = d.created_at_day,
                !.total_payment_with_tips_inc_vat = d.total_payment_with_tips_inc_vat,
                !.total_payment_inc_vat = d.total_payment_inc_vat]

\* the ledger columns of dwh_refund_cols (dwh_df[dwh_refund_cols]): no money column
WithLedgerRefundCols(row, d) ==
    [row EXCEPT !.gp_order_id = d.gp_order_id,
                !.mp_order_id = d.mp_order_id,
                !.order_completed = d.order_completed,
                !.created_at_day = d.created_at_day]

OfType(df, type) ==
    LET Is(t) == t.transaction_type = type
    IN  SelectSeq(df, Is)

SetCategory(df, cat) ==
    [i \in 1..Len(df) |-> [df[i] EXCEPT !.order_category = cat]]

\* left.merge(dwh, left_on="je_order_id", right_on="mp_order_id", how="left"):
\* one row per (left row, ledger row with the same key), in left order and then
\* ledger order; a left row with no partner is kept once with the ledger columns NaN
LeftMerge(left, dwh, refund_cols) ==
    LET Join(t) ==
            LET SameKey(d) == d.mp_order_id = t.je_order_id
                partners == SelectSeq(dwh, SameKey)
                base == WithStatement(BlankRow, t)
            IN  IF partners = <<>>
                THEN <<base>>
                ELSE [j \in 1..Len(partners) |->
                        IF refund_cols
                        THEN WithLedgerRefundCols(base, partners[j])
                        ELSE WithLedger(base, partners[j])]
    IN  Flatten([i \in 1..Len(left) |-> Join(left[i])])

merge_je_with_dwh(je, dwh) ==
    LET je_orders == SetCategory(LeftMerge(OfType(je, "Order"), dwh, FALSE), "Matched")
        je_refunds == SetCategory(LeftMerge(OfType(je, "Refund"), dwh, TRUE), "Matched")
        Plain(type) ==
            LET sel == OfType(je, type)
            IN  SetCategory([i \in 1..Len(sel) |-> WithStatement(BlankRow, sel[i])], type)
    IN  je_orders \o je_refunds \o Plain("Commission") \o Plain("Marketing")

\* mutant: the amount is taken from the ledger total without tips
TagLedgerRowNoTips(d, cat) ==
    [WithLedger(BlankRow, d) EXCEPT
        !.order_category = cat,
        !.transaction_type = "Order",
        !.je_order_id = d.mp_order_id,
        !.je_total = d.total_payment_inc_vat,
        !.je_refund = 0]

\* the tagging of a ledger row emitted on its own (missing / accrual)
TagLedgerRow(d, cat) ==
    [WithLedger(BlankRow, d) EXCEPT
        !.order_category = cat,
        !.transaction_type = "Order",
        !.je_order_id = d.mp_order_id,
        !.je_total = d.total_payment_with_tips_inc_vat,
        !.je_refund = 0]

\* set(df["je_order_id"].dropna())
ExistingIds(df) == {df[i].je_order_id : i \in DOMAIN df} \ {NaN}

\* mutant: the completed flag is not tested
find_missing_dwh_orders_no_completed(merged, dwh, s_start, s_end_sunday) ==
    LET InWindow(d) == /\ d.created_at_day >= s_start
                       /\ d.created_at_day <= s_end_sunday
        NotInJe(d) == d.mp_order_id \notin ExistingIds(merged)
        missing == SelectSeq(SelectSeq(dwh, InWindow), NotInJe)
    IN  [i \in 1..Len(missing) |-> TagLedgerRow(missing[i], "Missing in Statement")]

find_missing_dwh_orders(merged, dwh, s_start, s_end_sunday) ==
    LET InWindow(d) == /\ d.created_at_day >= s_start
                       /\ d.created_at_day <= s_end_sunday
                       /\ d.order_completed = 1
        dwh_window == SelectSeq(dwh, InWindow)
        existing_je == ExistingIds(merged)
        NotInJe(d) == d.mp_order_id \notin existing_je
        missing == SelectSeq(dwh_window, NotInJe)
    IN  [i \in 1..Len(missing) |-> TagLedgerRow(missing[i], "Missing in Statement")]

\* mutant: orders already in the dataset are not excluded
add_accrual_orders_no_exclusion(current, dwh, a_start, a_end) ==
    IF a_start = None \/ a_end = None
    THEN current
    ELSE LET InWindow(d) == /\ d.created_at_day >= a_start
                            /\ d.created_at_day <= a_end
                            /\ d.order_completed = 1
             accruals == SelectSeq(dwh, InWindow)
         IN  current \o [i \in 1..Len(accruals) |->
                            TagLedgerRow(accruals[i], "Accrual (Post-Statement)")]

add_accrual_orders(current, dwh, a_start, a_end) ==
    IF a_start = None \/ a_end = None
    THEN current
    ELSE LET InWindow(d) == /\ d.created_at_day >= a_start
                            /\ d.created_at_day <= a_end
                            /\ d.order_completed = 1
             existing == ExistingIds(current)
             NotExisting(d) == d.mp_order_id \notin existing
             accruals == SelectSeq(SelectSeq(dwh, InWindow), NotExisting)
         IN  current \o [i \in 1..Len(accruals) |->
                            TagLedgerRow(accruals[i], "Accrual (Post-Statement)")]

(***************************************************************************)
(* Variance calculation.                                                   *)
(***************************************************************************)
\* Series.round(2) on thousandths: to the nearest whole penny, a tie to the even one
Round2(x) ==
    LET q == x \div 10
        r == x % 10
    IN  IF r < 5 THEN 10 * q
        ELSE IF r > 5 THEN 10 * (q + 1)
        ELSE IF q % 2 = 0 THEN 10 * q ELSE 10 * (q + 1)

\* pd.to_numeric(...).fillna(0)
FillNa0(x) == IF x = NaN THEN 0 ELSE x

\* mutant: the amounts are compared as they are, not rounded to whole pence
JeVarianceRowUnrounded(r) ==
    LET je_total == FillNa0(r.je_total)
        ledger == FillNa0(r.total_payment_with_tips_inc_vat)
        mask == r.transaction_type = "Order"
    IN  [r EXCEPT
            !.je_total = je_total,
            !.total_payment_with_tips_inc_vat = ledger,
            !.matched_amount =
                IF mask
                THEN IF je_total = ledger THEN "Matched" ELSE "Not Matched"
                ELSE "Ignore",
            !.amount_variance = IF mask THEN je_total - ledger ELSE 0]

\* JE02 calculate_variances, one row
JeVarianceRow(r) ==
    LET je_total == FillNa0(r.je_total)
        ledger == FillNa0(r.total_payment_with_tips_inc_vat)
        mask == r.transaction_type = "Order"
    IN  [r EXCEPT
            !.je_total = je_total,
            !.total_payment_with_tips_inc_vat = ledger,
            !.matched_amount =
                IF mask
                THEN IF Round2(je_total) = Round2(ledger)
                     THEN "Matched" ELSE "Not Matched"
                ELSE "Ignore",
            !.amount_variance =
                IF mask
                THEN Round2(Round2(je_total) - Round2(ledger))
                ELSE 0]

calculate_variances(df) == [i \in 1..Len(df) |-> JeVarianceRow(df[i])]

(***************************************************************************)
(* Column clean-up: mp_order_id is filled from je_order_id where missing.  *)
(***************************************************************************)
finalise_columns(df) ==
    [i \in 1..Len(df) |->
        IF df[i].mp_order_id = NaN \/ df[i].mp_order_id = Blank
        THEN [df[i] EXCEPT !.mp_order_id = df[i].je_order_id]
        ELSE df[i]]

(***************************************************************************)
(* run_je_reconciliation on the loaded extracts.                           *)
(***************************************************************************)
\* steps 3 and 4: the merged statement rows followed by the missing orders
JeWithMissing(je, dwh, s_start, s_end_monday) ==
    LET s_end_sunday == s_end_monday + 6
        merged_df == merge_je_with_dwh(je, dwh)
        missing_df == find_missing_dwh_orders(merged_df, dwh, s_start, s_end_sunday)
    IN  IF missing_df # <<>> THEN merged_df \o missing_df ELSE merged_df

\* steps 3 to 7
JeReconciled(je, dwh, a_end, s_start, s_end_monday) ==
    LET accrual == calculate_accrual_period(a_end, s_end_monday + 6)
        with_accruals == add_accrual_orders(JeWithMissing(je, dwh, s_start, s_end_monday),
                                            dwh, accrual[1], accrual[2])
    IN  finalise_columns(calculate_variances(with_accruals))

(***************************************************************************)
(* Inputs of the Just Eat reconciliation.                                  *)
(***************************************************************************)
\* Ledger orders: completed orders of two references on the last day of the
\* shorter statement window (34) and the day after (35), with two amounts; a
\* completed order the day before the statement window (6) and the day after
\* the accounting period (42); orders that are not completed; and a completed
\* order whose reference cleaned to the empty string.
LedgerInputs ==
    [mp_order_id : {1, 2}, order_completed : {1}, created_at_day : {34, 35},
     total_payment_with_tips_inc_vat : {10200, 9900}, total_payment_inc_vat : {10000}]
    \cup [mp_order_id : {1}, order_completed : {1}, created_at_day : {6, 42},
          total_payment_with_tips_inc_vat : {10200}, total_payment_inc_vat : {10000}]
    \cup [mp_order_id : {1}, order_completed : {0}, created_at_day : {34, 35},
          total_payment_with_tips_inc_vat : {10200}, total_payment_inc_vat : {10000}]
    \cup [mp_order_id : {Blank}, order_completed : {1}, created_at_day : {34},
          total_payment_with_tips_inc_vat : {10200}, total_payment_inc_vat : {10000}]

\* Statement transactions: orders of both references, a refund on the first,
\* and the reference-less commission and marketing lines.
StatementRefs == {1, 2}
RefundRefs == {1}
OrderAmounts == {10200}
RefundAmounts == {5000}
CommissionAmounts == {0 - 24000}
MarketingAmounts == {0 - 12000}

StatementInputs ==
    [je_order_id : StatementRefs, transaction_type : {"Order"},
     je_total : OrderAmounts, je_refund : {0}]
    \cup [je_order_id : RefundRefs, transaction_type : {"Refund"},
          je_total : {0}, je_refund : RefundAmounts]
    \cup [je_order_id : {Blank}, transaction_type : {"Commission"},
          je_total : CommissionAmounts, je_refund : {0}]
    \cup [je_order_id : {Blank}, transaction_type : {"Marketing"},
          je_total : MarketingAmounts, je_refund : {0}]

\* the ledger order id (gp_order_id) is the row's position in the extract
WithOrderIds(rows) ==
    [i \in 1..Len(rows) |->
        [gp_order_id |-> i,
         mp_order_id |-> rows[i].mp_order_id,
         order_completed |-> rows[i].order_completed,
         created_at_day |-> rows[i].created_at_day,
         total_payment_with_tips_inc_vat |-> rows[i].total_payment_with_tips_inc_vat,
         total_payment_inc_vat |-> rows[i].total_payment_inc_vat]]

\* November 2025; the statement PDFs reach to Sunday 23 or Sunday 30 November
JeAccountingPeriod == [start |-> 12, end |-> 41]
JeFolders == {{7, 14, 21, 28}, {7, 14, 21, 28, 35}}

IdlePeriod ==
    /\ acc_start = None /\ acc_end = None /\ pdf_folder = {}
    /\ stmt_start = None /\ stmt_end_monday = None /\ stmt_end_sunday = None
    /\ accrual_start = None /\ accrual_end = None
    /\ period_pc = "idle"

IdleJe == dwh_df = <<>> /\ je_df = <<>> /\ final_df = <<>> /\ je_pc = "idle"

IdleVar == var_df = <<>> /\ var_out = <<>> /\ var_pc = "idle"

IdleDr == dr_df = <<>> /\ dr_dwh_df = <<>> /\ dr_matched_df = <<>> /\ dr_pc = "idle"

NoFile == [exists |-> FALSE, rows |-> <<>>]

IdleRun ==
    /\ run_provider = "idle" /\ ledger_files = <<>> /\ extract_present = FALSE
    /\ recon_file = NoFile /\ run_results = <<>>

IdleAmounts == segment_text = <<>> /\ amounts_out = <<>> /\ amounts_pc = "idle"

IdlePdf == df_full = <<>> /\ pdf_rows = <<>> /\ pdf_pc = "idle"

IdleBatch ==
    /\ batch_provider = "idle" /\ batch_docs = <<>>
    /\ batch_file = NoFile
    /\ batch_result = [returned |-> "idle", file_before |-> NoFile]

IdleCsv == csv_lines = <<>> /\ csv_sections = <<>> /\ csv_pc = "idle"

IdleParsers == IdleAmounts /\ IdlePdf /\ IdleBatch /\ IdleCsv

IdleCols == cols_in = <<>> /\ cols_out = <<>> /\ cols_pc = "idle"

IdleDesc ==
    /\ desc_lines = <<>>
    /\ desc_out = [raised |-> FALSE, descriptions |-> <<>>]
    /\ desc_pc = "idle"

IdleMfc ==
    /\ mfc_files = <<>> /\ mfc_scanned = <<>>
    /\ mfc_mapping = {} /\ mfc_unmapped = {}
    /\ mfc_parser = [started |-> FALSE, mfc_mapping |-> {}]
    /\ mfc_pc = "idle"

IdleBt == bt_folder = {} /\ bt_runs = 0 /\ bt_pc = "idle"

\* no call made yet
NoCall ==
    [op |-> "none", returned |-> FALSE, page_before |-> "none",
     history_before |-> <<>>, index_before |-> -1,
     prev_op |-> "none", prev_returned |-> FALSE, prev_page_before |-> "none"]

IdleNav ==
    /\ nav_history = <<>> /\ nav_index = -1
    /\ nav_page = [current |-> "none", previous |-> "none"]
    /\ nav_last = NoCall

\* an output file name is the two dates it is built from
NoName == [first |-> None, last |-> None]

NotLoaded == [found |-> FALSE, name |-> NoName]

NoWindow == [stmt_start |-> None, stmt_end_monday |-> None, stmt_end_sunday |-> None]

IdleHand ==
    /\ hand_provider = "none" /\ hand_window = NoWindow
    /\ hand_dates = {} /\ hand_output = {}
    /\ hand_step1 = NoName /\ hand_step2 = NotLoaded
    /\ hand_pc = "idle"

IdleBtn ==
    /\ btn_state = "normal" /\ btn_threads = <<>>
    /\ btn_log = <<>> /\ btn_pc = "idle"

\* every later subsystem but the named one is idle / left alone
IdleMoreExcept(x) ==
    /\ (x = "cols" \/ IdleCols)
    /\ (x = "desc" \/ IdleDesc)
    /\ (x = "mfc" \/ IdleMfc)
    /\ (x = "bt" \/ IdleBt)
    /\ (x = "nav" \/ IdleNav)
    /\ (x = "hand" \/ IdleHand)
    /\ (x = "btn" \/ IdleBtn)

UnchangedMoreExcept(x) ==
    /\ IF x = "cols" THEN TRUE ELSE UNCHANGED colVars
    /\ IF x = "desc" THEN TRUE ELSE UNCHANGED descVars
    /\ IF x = "mfc" THEN TRUE ELSE UNCHANGED mfcVars
    /\ IF x = "bt" THEN TRUE ELSE UNCHANGED btVars
    /\ IF x = "nav" THEN TRUE ELSE UNCHANGED navVars
    /\ IF x = "hand" THEN TRUE ELSE UNCHANGED handVars
    /\ IF x = "btn" THEN TRUE ELSE UNCHANGED btnVars

IdleMore == IdleMoreExcept("none")

IdleExt == IdleRun /\ IdleParsers /\ IdleMore

IdleBase == IdlePeriod /\ IdleJe /\ IdleVar /\ IdleDr /\ IdleRun /\ IdleParsers

InitJe ==
    /\ acc_start = JeAccountingPeriod.start
    /\ acc_end = JeAccountingPeriod.end
    /\ pdf_folder \in JeFolders
    /\ LET p == calculate_statement_period(acc_start, acc_end, pdf_folder)
       IN  stmt_start = p[1] /\ stmt_end_monday = p[2] /\ stmt_end_sunday = p[3]
    /\ accrual_start = None /\ accrual_end = None
    /\ period_pc = "idle"
    /\ \E rows \in SeqsUpTo(LedgerInputs, MaxLedgerRows) : dwh_df = WithOrderIds(rows)
    /\ je_df \in SeqsUpTo(StatementInputs, MaxStmtRows)
    /\ final_df = <<>>
    /\ je_pc = "loaded"
    /\ IdleVar /\ IdleDr /\ IdleExt

RunJeReconciliation ==
    /\ je_pc = "loaded"
    /\ LET accrual == calculate_accrual_period(acc_end, stmt_end_monday + 6)
       IN  accrual_start' = accrual[1] /\ accrual_end' = accrual[2]
    /\ final_df' = JeReconciled(je_df, dwh_df, acc_end, stmt_start, stmt_end_monday)
    /\ je_pc' = "saved"
    /\ UNCHANGED <<acc_start, acc_end, pdf_folder, stmt_start, stmt_end_monday,
                   stmt_end_sunday, period_pc, dwh_df, je_df, varVars, drVars, extVars>>

NextJe == RunJeReconciliation

SpecJe == InitJe /\ [][NextJe]_vars

(***************************************************************************)
(* Period calculation on its own: every accounting month start (any        *)
(* weekday), every month length, and every folder of at most MaxPdfs       *)
(* weekly statement PDFs, each named with the Monday its week starts on.   *)
(***************************************************************************)
MonthStarts == 12..18
MonthLengths == {28, 29, 30, 31}
PdfMondays == {w \in 0..56 : Weekday(w) = 0}
Folders == {f \in SUBSET PdfMondays : Cardinality(f) <= MaxPdfs}

InitPeriod ==
    /\ acc_start \in MonthStarts
    /\ \E len \in MonthLengths : acc_end = acc_start + len - 1
    /\ pdf_folder \in Folders
    /\ stmt_start = None /\ stmt_end_monday = None /\ stmt_end_sunday = None
    /\ accrual_start = None /\ accrual_end = None
    /\ period_pc = "start"
    /\ IdleJe /\ IdleVar /\ IdleDr /\ IdleExt

CalculateStatementPeriod ==
    /\ period_pc = "start"
    /\ LET p == calculate_statement_period(acc_start, acc_end, pdf_folder)
       IN  stmt_start' = p[1] /\ stmt_end_monday' = p[2] /\ stmt_end_sunday' = p[3]
    /\ period_pc' = "statement"
    /\ UNCHANGED <<acc_start, acc_end, pdf_folder, accrual_start, accrual_end,
                   jeVars, varVars, drVars, extVars>>

CalculateAccrualPeriod ==
    /\ period_pc = "statement"
    /\ LET a == calculate_accrual_period(acc_end, stmt_end_sunday)
       IN  accrual_start' = a[1] /\ accrual_end' = a[2]
    /\ period_pc' = "accrual"
    /\ UNCHANGED <<acc_start, acc_end, pdf_folder, stmt_start, stmt_end_monday,
                   stmt_end_sunday, jeVars, varVars, drVars, extVars>>

NextPeriod == CalculateStatementPeriod \/ CalculateAccrualPeriod

SpecPeriod == InitPeriod /\ [][NextPeriod]_vars

(***************************************************************************)
(* DR02_data_reconciliation: partial-key matching.                         *)
(*                                                                         *)
(* A statement row carries order_last4, mfc_name (the mapped location),    *)
(* delivery_date, accounting_category and order_value_gross.  A ledger row *)
(* carries idx (its index label), mp_order_id, location_name,              *)
(* created_at_day, order_completed and total_payment_with_tips_inc_vat.    *)
(* A result row carries the statement columns, order_category and, when    *)
(* matched, the ledger row's columns under the dwh_ prefix.                *)
(***************************************************************************)
DeliveryCategory == "Order Value & Commission"

DrResultRow(t, cat, d) ==
    [order_last4 |-> t.order_last4, mfc_name |-> t.mfc_name,
     delivery_date |-> t.delivery_date,
     accounting_category |-> t.accounting_category,
     order_value_gross |-> t.order_value_gross,
     order_category |-> cat,
     dwh_idx |-> d.idx,
     dwh_total_payment_with_tips_inc_vat |-> d.total_payment_with_tips_inc_vat,
     matched_amount |-> NaNStr, amount_variance |-> NaN]

NoLedgerRow == [idx |-> NaN, total_payment_with_tips_inc_vat |-> NaN]

\* the (date, row) entries of dwh_lookup[(last4, mfc)], in ledger order
DwhLookup(dwh_completed, last4, mfc) ==
    LET HasKey(d) == /\ d.mp_order_id # Blank
                     /\ d.location_name # Blank
                     /\ d.mp_order_id = last4
                     /\ d.location_name = mfc
    IN  SelectSeq(dwh_completed, HasKey)

WithinTolerance(dr_date, dwh_date) ==
    dr_date # NaN /\ dwh_date # NaN /\ Abs(dr_date - dwh_date) <= 1

\* mutant: the last candidate within tolerance wins (no break)
MatchDeliveryLast(t, dwh_completed) ==
    LET Ok(d) == WithinTolerance(t.delivery_date, d.created_at_day)
        hits == SelectSeq(DwhLookup(dwh_completed, t.order_last4, t.mfc_name), Ok)
    IN  IF hits # <<>>
        THEN DrResultRow(t, "Matched", hits[Len(hits)])
        ELSE DrResultRow(t, "Not Matched", NoLedgerRow)

\* the loop body of match_deliveroo_orders for one delivery row
MatchDelivery(t, dwh_completed) ==
    LET Ok(d) == WithinTolerance(t.delivery_date, d.created_at_day)
        hits == SelectSeq(DwhLookup(dwh_completed, t.order_last4, t.mfc_name), Ok)
    IN  IF hits # <<>>
        THEN DrResultRow(t, "Matched", Head(hits))
        ELSE DrResultRow(t, "Not Matched", NoLedgerRow)

match_deliveroo_orders(dr, dwh) ==
    LET IsDelivery(t) == t.accounting_category = DeliveryCategory
        IsOther(t) == t.accounting_category # DeliveryCategory
        IsCompleted(d) == d.order_completed = 1
        dr_deliveries == SelectSeq(dr, IsDelivery)
        dr_other == SelectSeq(dr, IsOther)
        dwh_completed == SelectSeq(dwh, IsCompleted)
    IN  [i \in 1..Len(dr_deliveries) |-> MatchDelivery(dr_deliveries[i], dwh_completed)]
        \o [i \in 1..Len(dr_other) |->
                DrResultRow(dr_other[i], dr_other[i].accounting_category, NoLedgerRow)]

\* DR02 calculate_variances, one row; has_dwh: the dataset has the dwh_ total column
DrVarianceRow(r, has_dwh) ==
    LET mask == r.order_category = "Matched"
        variance == Round2(Round2(r.order_value_gross)
                           - Round2(r.dwh_total_payment_with_tips_inc_vat))
    IN  IF ~mask
        THEN [r EXCEPT !.matched_amount = "N/A", !.amount_variance = 0]
        ELSE IF has_dwh
        THEN [r EXCEPT !.amount_variance = variance,
                       !.matched_amount = IF Abs(variance) < 10
                                          THEN "Exact Match" ELSE "Value Variance"]
        ELSE [r EXCEPT !.amount_variance = 0, !.matched_amount = "No DWH Value"]

dr_calculate_variances(df) ==
    LET has_dwh == \E i \in DOMAIN df : df[i].dwh_total_payment_with_tips_inc_vat # NaN
    IN  [i \in 1..Len(df) |-> DrVarianceRow(df[i], has_dwh)]

(***************************************************************************)
(* Inputs of the Deliveroo matching.  The ledger holds completed orders of *)
(* reference 1 at two locations, dated two days before to two days after   *)
(* the delivery date 11, an order that is not completed, and a completed   *)
(* order whose reference cleaned to the empty string.  order_last4 is      *)
(* never empty: it is cut from the text of order_number.                   *)
(***************************************************************************)
DrLedgerInputs ==
    [mp_order_id : {1}, location_name : {1, 2}, created_at_day : {9, 10, 12, 13},
     order_completed : {1}, total_payment_with_tips_inc_vat : {10200}]
    \cup [mp_order_id : {1}, location_name : {1}, created_at_day : {11},
          order_completed : {0}, total_payment_with_tips_inc_vat : {10200}]
    \cup [mp_order_id : {Blank}, location_name : {1}, created_at_day : {11},
          order_completed : {1}, total_payment_with_tips_inc_vat : {10200}]

DrStatementInputs ==
    [order_last4 : {1, 2}, mfc_name : {1}, delivery_date : {11},
     accounting_category : {DeliveryCategory}, order_value_gross : {10200}]
    \cup [order_last4 : {1}, mfc_name : {1}, delivery_date : {NaN},
          accounting_category : {DeliveryCategory}, order_value_gross : {10200}]
    \cup [order_last4 : {1}, mfc_name : {1}, delivery_date : {11},
          accounting_category : {"Adjustment"}, order_value_gross : {0}]

\* the index label of a ledger row is its position in the extract
WithIndex(rows) ==
    [i \in 1..Len(rows) |->
        [idx |-> i,
         mp_order_id |-> rows[i].mp_order_id,
         location_name |-> rows[i].location_name,
         created_at_day |-> rows[i].created_at_day,
         order_completed |-> rows[i].order_completed,
         total_payment_with_tips_inc_vat |-> rows[i].total_payment_with_tips_inc_vat]]

InitDr ==
    /\ IdlePeriod /\ IdleJe /\ IdleVar /\ IdleExt
    /\ \E rows \in SeqsUpTo(DrLedgerInputs, MaxLedgerRows) : dr_dwh_df = WithIndex(rows)
    /\ dr_df \in SeqsUpTo(DrStatementInputs, MaxStmtRows)
    /\ dr_matched_df = <<>>
    /\ dr_pc = "loaded"

\* run_dr_reconciliation: match, then calculate the variances
RunDrReconciliation ==
    /\ dr_pc = "loaded"
    /\ dr_matched_df' = dr_calculate_variances(match_deliveroo_orders(dr_df, dr_dwh_df))
    /\ dr_pc' = "done"
    /\ UNCHANGED <<periodVars, jeVars, varVars, dr_df, dr_dwh_df, extVars>>

NextDr == RunDrReconciliation

SpecDr == InitDr /\ [][NextDr]_vars

(***************************************************************************)
(* The two calculate_variances on their own.  Amounts sit on a whole penny *)
(* or 0.4p / 0.6p off it; NaN is an amount that is missing.                *)
(***************************************************************************)
JeVarianceInputs ==
    {[BlankRow EXCEPT !.transaction_type = type, !.je_total = s,
                      !.total_payment_with_tips_inc_vat = l] :
        type \in {"Order", "Refund"}, s \in {10000, 10004, 10020, NaN},
        l \in {10000, 10006, NaN}}

DrVarianceInputs ==
    {DrResultRow([order_last4 |-> 1, mfc_name |-> 1, delivery_date |-> 11,
                  accounting_category |-> DeliveryCategory, order_value_gross |-> s],
                 "Matched",
                 [idx |-> 1, total_payment_with_tips_inc_vat |-> l]) :
        s \in {10000, 10004, 10020}, l \in {10000, 10006}}
    \cup {DrResultRow([order_last4 |-> 2, mfc_name |-> 1, delivery_date |-> 11,
                       accounting_category |-> DeliveryCategory,
                       order_value_gross |-> 10000],
                      "Not Matched", NoLedgerRow)}

InitVar ==
    /\ IdlePeriod /\ IdleJe /\ IdleDr /\ IdleExt
    /\ \/ var_pc = "je" /\ var_df \in SeqsUpTo(JeVarianceInputs, MaxVarRows)
       \/ var_pc = "dr" /\ var_df \in SeqsUpTo(DrVarianceInputs, MaxVarRows)
    /\ var_out = <<>>

JeCalculateVariances ==
    /\ var_pc = "je"
    /\ var_out' = calculate_variances(var_df)
    /\ var_pc' = "je_done"
    /\ UNCHANGED <<periodVars, jeVars, drVars, var_df, extVars>>

DrCalculateVariances ==
    /\ var_pc = "dr"
    /\ var_out' = dr_calculate_variances(var_df)
    /\ var_pc' = "dr_done"
    /\ UNCHANGED <<periodVars, jeVars, drVars, var_df, extVars>>

NextVar == JeCalculateVariances \/ DrCalculateVariances

SpecVar == InitVar /\ [][NextVar]_vars

(***************************************************************************)
(* Properties of the Just Eat reconciliation (SpecJe).                     *)
(***************************************************************************)
Saved == je_pc = "saved"

IsMissing(r) == r.order_category = "Missing in Statement"

IsAccrual(r) == r.order_category = "Accrual (Post-Statement)"

OrderIdsOf(rows) == [i \in 1..Len(rows) |-> rows[i].gp_order_id]

\* the references the statement transactions carry
StatementReferences == {je_df[i].je_order_id : i \in DOMAIN je_df}

\* the references of the rows emitted before the accrual step
EmittedReferences ==
    {final_df[j].je_order_id : j \in {k \in DOMAIN final_df : ~IsAccrual(final_df[k])}}

CompletedInStatementWindow(d) ==
    /\ d.order_completed = 1
    /\ d.created_at_day >= stmt_start
    /\ d.created_at_day <= stmt_end_sunday

MissingSelected(d) ==
    CompletedInStatementWindow(d) /\ d.mp_order_id \notin StatementReferences

AccrualSelected(d) ==
    /\ accrual_start # None
    /\ d.order_completed = 1
    /\ d.created_at_day >= accrual_start
    /\ d.created_at_day <= accrual_end
    /\ d.mp_order_id \notin EmittedReferences

\* C1: after the reconciliation each completed ledger order dated in the
\* accounting period appears in exactly one output row, and that row's category
\* is Matched, Missing in Statement or Accrual.
C1_Completeness ==
    Saved =>
        \A i \in DOMAIN dwh_df :
            (/\ dwh_df[i].order_completed = 1
             /\ dwh_df[i].created_at_day >= acc_start
             /\ dwh_df[i].created_at_day <= acc_end)
            => LET rows == {j \in DOMAIN final_df :
                                final_df[j].gp_order_id = dwh_df[i].gp_order_id}
               IN  /\ Cardinality(rows) = 1
                   /\ \A j \in rows :
                        final_df[j].order_category \in
                            {"Matched", "Missing in Statement", "Accrual (Post-Statement)"}

C3_AccrualDetection ==
    Saved =>
        IF accrual_start = None \/ accrual_end = None
        THEN /\ final_df = finalise_columns(calculate_variances(
                                JeWithMissing(je_df, dwh_df, stmt_start, stmt_end_monday)))
             /\ \A j \in DOMAIN final_df : ~IsAccrual(final_df[j])
        ELSE OrderIdsOf(SelectSeq(final_df, IsAccrual))
                = OrderIdsOf(SelectSeq(dwh_df, AccrualSelected))

\* a run with an accrual window where one order is accrued and another order
\* of the window is left out because its reference was already emitted
C3_Witness ==
    /\ Saved
    /\ accrual_start # None
    /\ \E j \in DOMAIN final_df : IsAccrual(final_df[j])
    /\ \E i \in DOMAIN dwh_df :
        /\ dwh_df[i].order_completed = 1
        /\ dwh_df[i].created_at_day >= accrual_start
        /\ dwh_df[i].created_at_day <= accrual_end
        /\ dwh_df[i].mp_order_id \in EmittedReferences

\* C4: every Missing in Statement row and every Accrual row carries as je_total
\* the ledger's total_payment_with_tips_inc_vat of the same ledger order and a
\* je_refund of 0, and the sum of je_total over these rows is the sum of that
\* ledger field over the ledger orders the two steps select.
C4_Conservation ==
    Saved =>
        LET IsLedgerSourced(r) == IsMissing(r) \/ IsAccrual(r)
            Selected(d) == MissingSelected(d) \/ AccrualSelected(d)
            out == SelectSeq(final_df, IsLedgerSourced)
            sel == SelectSeq(dwh_df, Selected)
        IN  /\ \A j \in DOMAIN out :
                /\ out[j].je_refund = 0
                /\ \E i \in DOMAIN dwh_df :
                    /\ dwh_df[i].gp_order_id = out[j].gp_order_id
                    /\ out[j].je_total = dwh_df[i].total_payment_with_tips_inc_vat
            /\ SumSeq([j \in 1..Len(out) |-> out[j].je_total])
                = SumSeq([i \in 1..Len(sel) |-> sel[i].total_payment_with_tips_inc_vat])

\* a run that emits both a missing order and an accrued order
C4_Witness ==
    /\ Saved
    /\ \E j \in DOMAIN final_df : IsMissing(final_df[j]) /\ final_df[j].je_total > 0
    /\ \E j \in DOMAIN final_df : IsAccrual(final_df[j]) /\ final_df[j].je_total > 0

\* C6: every Refund, Commission, Marketing, Missing in Statement and Accrual
\* row carries matched_amount "Ignore" and amount_variance 0.
C6_OtherRowsIgnored ==
    Saved =>
        \A j \in DOMAIN final_df :
            (\/ final_df[j].transaction_type \in {"Refund", "Commission", "Marketing"}
             \/ IsMissing(final_df[j])
             \/ IsAccrual(final_df[j]))
            => /\ final_df[j].matched_amount = "Ignore"
               /\ final_df[j].amount_variance = 0

(***************************************************************************)
(* Properties of the period calculation (SpecPeriod).                      *)
(***************************************************************************)
StatementPeriodKnown == period_pc \in {"statement", "accrual"}

\* the statement PDFs whose week overlaps the accounting period
OverlappingPdfs == {w \in pdf_folder : ~(w + 6 < acc_start \/ w > acc_end)}

C8_CoverageIntersection ==
    (StatementPeriodKnown /\ OverlappingPdfs # {}) =>
        LET earliest == SetMin(OverlappingPdfs)
            latest == SetMax(OverlappingPdfs) + 6
            week_start == get_start_of_week(acc_start)
            week_end == get_end_of_week(acc_end)
        IN  /\ stmt_start = IF earliest > week_start THEN earliest ELSE week_start
            /\ stmt_end_sunday = Min(latest, week_end)

\* C9: the accrual window is (statement-window end + 1, accounting-period end)
\* when the statement window ends before the accounting-period end and
\* (None, None) when it ends on or after it; a window is never inverted.
C9_AccrualWindow ==
    period_pc = "accrual" =>
        IF stmt_end_sunday < acc_end
        THEN /\ accrual_start = stmt_end_sunday + 1
             /\ accrual_end = acc_end
             /\ accrual_start <= accrual_end
        ELSE accrual_start = None /\ accrual_end = None

\* the statements stop a week short of the accounting-period end
C9_Witness ==
    /\ period_pc = "accrual"
    /\ stmt_end_sunday < acc_end
    /\ accrual_start = stmt_end_sunday + 1
    /\ accrual_end = acc_end

(***************************************************************************)
(* Properties of the Deliveroo matching (SpecDr).                          *)
(***************************************************************************)
\* the positions of the ledger rows that qualify for delivery t
Candidates(t) ==
    {i \in DOMAIN dr_dwh_df :
        /\ dr_dwh_df[i].order_completed = 1
        /\ dr_dwh_df[i].mp_order_id = t.order_last4
        /\ dr_dwh_df[i].location_name = t.mfc_name
        /\ t.delivery_date # NaN
        /\ dr_dwh_df[i].created_at_day - t.delivery_date \in {0 - 1, 0, 1}}

\* C10: a delivery transaction is Matched if and only if some completed ledger
\* order has mp_order_id equal to its last-4 digits, location_name equal to its
\* mapped location and a date within 1 day of the delivery date; the ledger
\* row attached is the first such row in ledger order; every other delivery
\* transaction is Not Matched.
C10_PartialKeyMatch ==
    dr_pc = "done" =>
        LET IsDelivery(t) == t.accounting_category = DeliveryCategory
            deliveries == SelectSeq(dr_df, IsDelivery)
        IN  /\ Len(dr_matched_df) = Len(dr_df)
            /\ \A k \in DOMAIN deliveries :
                LET t == deliveries[k]
                    r == dr_matched_df[k]
                IN  /\ r.order_last4 = t.order_last4
                    /\ r.mfc_name = t.mfc_name
                    /\ r.delivery_date = t.delivery_date
                    /\ r.order_category = "Matched" <=> Candidates(t) # {}
                    /\ Candidates(t) # {} => r.dwh_idx = SetMin(Candidates(t))
                    /\ Candidates(t) = {} => r.order_category = "Not Matched"

\* a delivery with two qualifying ledger rows, matched to the first, next to a
\* delivery with none
C10_Witness ==
    /\ dr_pc = "done"
    /\ \E k \in DOMAIN dr_matched_df :
        /\ dr_matched_df[k].order_category = "Matched"
        /\ Cardinality(Candidates(dr_matched_df[k])) >= 2
        /\ dr_matched_df[k].dwh_idx = SetMin(Candidates(dr_matched_df[k]))
    /\ \E k \in DOMAIN dr_matched_df : dr_matched_df[k].order_category = "Not Matched"

Enumerations(n) == {p \in [1..n -> 1..n] : \A i, j \in 1..n : p[i] = p[j] => i = j}

\* mutant: one file that fails to parse fails the load
load_dwh_strict(files) ==
    LET Parses(f) == f.parses
        dfs == SelectSeq(files, Parses)
    IN  IF files = <<>> \/ Len(dfs) < Len(files)
        THEN [error |-> TRUE, rows |-> <<>>]
        ELSE [error |-> FALSE, rows |-> Flatten([i \in 1..Len(dfs) |-> dfs[i].rows])]

\* load_dwh_for_period / load_dwh_deliveroo on the files in enumeration order:
\* files that fail to parse are skipped, no parsed file is an error
load_dwh(files) ==
    LET Parses(f) == f.parses
        dfs == SelectSeq(files, Parses)
    IN  IF files = <<>> \/ dfs = <<>>
        THEN [error |-> TRUE, rows |-> <<>>]
        ELSE [error |-> FALSE, rows |-> Flatten([i \in 1..Len(dfs) |-> dfs[i].rows])]

\* the columns of a Deliveroo result row that are written out
DrSaved(df) ==
    [i \in 1..Len(df) |->
        [order_last4 |-> df[i].order_last4, mfc_name |-> df[i].mfc_name,
         delivery_date |-> df[i].delivery_date,
         accounting_category |-> df[i].accounting_category,
         order_value_gross |-> df[i].order_value_gross,
         order_category |-> df[i].order_category,
         dwh_total_payment_with_tips_inc_vat |-> df[i].dwh_total_payment_with_tips_inc_vat,
         matched_amount |-> df[i].matched_amount,
         amount_variance |-> df[i].amount_variance]]

\* run_je_reconciliation / run_dr_reconciliation: what is returned and what the
\* output file holds afterwards
RunOutcome(provider, files, present, file_before) ==
    LET load == load_dwh(files)
    IN  IF load.error \/ ~present
        THEN [ok |-> FALSE, load_error |-> load.error,
              file_before |-> file_before, file |-> file_before]
        ELSE LET out == IF provider = "je"
                        THEN JeReconciled(je_df, load.rows, acc_end,
                                          stmt_start, stmt_end_monday)
                        ELSE DrSaved(dr_calculate_variances(
                                match_deliveroo_orders(dr_df, WithIndex(load.rows))))
             IN  [ok |-> TRUE, load_error |-> FALSE,
                  file_before |-> file_before,
                  file |-> [exists |-> TRUE, rows |-> out]]

\* Just Eat ledger rows: two completed orders missing from the statement
RunJeLedgerInputs ==
    [gp_order_id : {11, 12}, mp_order_id : {2}, order_completed : {1},
     created_at_day : {34}, total_payment_with_tips_inc_vat : {10200},
     total_payment_inc_vat : {10000}]

\* Deliveroo ledger rows: two candidates of the same key, a day either side of
\* the delivery date
RunDrLedgerInputs ==
    {[mp_order_id |-> 1, location_name |-> 1, created_at_day |-> 10,
      order_completed |-> 1, total_payment_with_tips_inc_vat |-> 10200],
     [mp_order_id |-> 1, location_name |-> 1, created_at_day |-> 12,
      order_completed |-> 1, total_payment_with_tips_inc_vat |-> 9900]}

LedgerFilesOf(rows) ==
    {[parses |-> FALSE, rows |-> <<>>], [parses |-> TRUE, rows |-> <<>>]}
    \cup {[parses |-> TRUE, rows |-> <<r>>] : r \in rows}

InitRun ==
    /\ acc_start = JeAccountingPeriod.start
    /\ acc_end = JeAccountingPeriod.end
    /\ pdf_folder = {7, 14, 21, 28}
    /\ LET p == calculate_statement_period(acc_start, acc_end, pdf_folder)
       IN  stmt_start = p[1] /\ stmt_end_monday = p[2] /\ stmt_end_sunday = p[3]
    /\ accrual_start = None /\ accrual_end = None
    /\ period_pc = "idle"
    /\ IdleVar
    /\ dwh_df = <<>> /\ final_df = <<>> /\ je_pc = "idle"
    /\ dr_dwh_df = <<>> /\ dr_matched_df = <<>> /\ dr_pc = "idle"
    /\ extract_present \in BOOLEAN
    /\ \/ /\ run_provider = "je"
          /\ ledger_files \in SeqsUpTo(LedgerFilesOf(RunJeLedgerInputs), MaxLedgerFiles)
          /\ je_df \in {<<>>, <<[je_order_id |-> 1, transaction_type |-> "Order",
                                 je_total |-> 10200, je_refund |-> 0]>>}
          /\ dr_df = <<>>
       \/ /\ run_provider = "dr"
          /\ ledger_files \in SeqsUpTo(LedgerFilesOf(RunDrLedgerInputs), MaxLedgerFiles)
          /\ dr_df \in {<<>>, <<[order_last4 |-> 1, mfc_name |-> 1, delivery_date |-> 11,
                                 accounting_category |-> DeliveryCategory,
                                 order_value_gross |-> 10200]>>}
          /\ je_df = <<>>
    /\ recon_file \in {NoFile, [exists |-> TRUE, rows |-> <<>>]}
    /\ run_results = <<>>
    /\ IdleParsers /\ IdleMore

RunReconciliation(provider) ==
    /\ run_provider = provider
    /\ Len(run_results) < MaxRuns
    /\ \E p \in Enumerations(Len(ledger_files)) :
        LET enumerated == [i \in 1..Len(ledger_files) |-> ledger_files[p[i]]]
            outcome == RunOutcome(provider, enumerated, extract_present, recon_file)
        IN  /\ run_results' = Append(run_results, outcome)
            /\ recon_file' = outcome.file
    /\ UNCHANGED <<periodVars, jeVars, varVars, drVars,
                   run_provider, ledger_files, extract_present,
                   amountVars, pdfVars, batchVars, csvVars, moreVars>>

RunJeOnFolder == RunReconciliation("je")

RunDrOnFolder == RunReconciliation("dr")

NextRun == RunJeOnFolder \/ RunDrOnFolder

SpecRun == InitRun /\ [][NextRun]_vars

\* C11: two runs on identical ledger files, statement extract and period
\* produce the identical output dataset whatever the order in which the ledger
\* files are enumerated, and the output file holds the dataset of the last run
\* (overwritten, never appended to).
C11_Idempotence ==
    \A i, j \in DOMAIN run_results :
        (run_results[i].ok /\ run_results[j].ok) =>
            /\ run_results[i].file = run_results[j].file
            /\ recon_file = run_results[Len(run_results)].file

\* C14: the ledger load fails exactly when no ledger file parses; a run whose
\* ledger load fails or whose statement extract is absent returns failure and
\* leaves the reconciliation output file as it was.
C14_FatalMissingInput ==
    \A i \in DOMAIN run_results :
        LET r == run_results[i]
            none_parses == \A k \in DOMAIN ledger_files : ~ledger_files[k].parses
        IN  /\ r.load_error <=> none_parses
            /\ ~r.ok <=> (none_parses \/ ~extract_present)
            /\ ~r.ok => r.file = r.file_before /\ recon_file = r.file_before

\* a folder with a file that fails to parse next to one that parses, whose run
\* succeeded, and a run that failed with an output file already there
C14_Witness ==
    /\ run_results # <<>>
    /\ \/ /\ run_results[1].ok
          /\ \E k \in DOMAIN ledger_files : ~ledger_files[k].parses
       \/ /\ ~run_results[1].ok
          /\ run_results[1].load_error
          /\ recon_file.exists

TransactionTypes == {"Order", "Refund", "Commission", "Marketing"}

\* the output rows that come from statement transactions of one type
RowsFromStatement(type) ==
    {j \in DOMAIN final_df : /\ final_df[j].transaction_type = type
                             /\ ~IsMissing(final_df[j])
                             /\ ~IsAccrual(final_df[j])}

\* C15: each statement transaction yields exactly one reconciliation record:
\* per type, the number of output rows that come from statement transactions
\* equals the number of statement transactions, also when several ledger rows
\* share a cleaned reference.
C15_OneRecordPerTransaction ==
    Saved =>
        \A type \in TransactionTypes :
            Cardinality(RowsFromStatement(type))
                = Cardinality({i \in DOMAIN je_df : je_df[i].transaction_type = type})

(***************************************************************************)
(* extract_amounts (SpecAmounts).  A segment is a sequence of tokens: a     *)
(* money token is a match of the money pattern, with the dash printed      *)
(* before the pound sign ("" for none, "-" hyphen, "en-dash") and the    *)
(* digits as thousandths of a pound; anything else is text.                *)
(***************************************************************************)
SummaryThreshold == 1000000     \* value > 1000, in thousandths of a pound

Dashes == {"", "-", "en-dash"}

MoneyValues == {5000, 1000000, 1000010}

SegmentTokens ==
    [kind : {"money"}, sign : Dashes, value : MoneyValues]
    \cup {[kind |-> "text", sign |-> "", value |-> 0]}

\* segment_text.replace("–", "-")
NormaliseDash(sign) == IF sign = "en-dash" THEN "-" ELSE sign

\* sign = -1 if m.group(1) == "-" else 1; value = float(m.group(2)) * sign
SignedValue(tok) ==
    IF NormaliseDash(tok.sign) = "-" THEN 0 - tok.value ELSE tok.value

\* money_pattern.finditer(segment_text): the matches in text order
MoneyMatches(tokens) ==
    LET IsMoney(t) == t.kind = "money"
    IN  SelectSeq(tokens, IsMoney)

RECURSIVE AmountsLoopNoBreak(_, _)
\* mutant: a summary amount is skipped and the loop goes on
AmountsLoopNoBreak(matches, results) ==
    IF matches = <<>> THEN results
    ELSE LET value == SignedValue(Head(matches))
         IN  IF Len(results) > 0 /\ value > SummaryThreshold
             THEN AmountsLoopNoBreak(Tail(matches), results)
             ELSE AmountsLoopNoBreak(Tail(matches), Append(results, value))

RECURSIVE AmountsLoop(_, _)
\* the for loop of extract_amounts over the remaining matches
AmountsLoop(matches, results) ==
    IF matches = <<>> THEN results
    ELSE LET value == SignedValue(Head(matches))
         IN  IF Len(results) > 0 /\ value > SummaryThreshold
             THEN results
             ELSE AmountsLoop(Tail(matches), Append(results, value))

extract_amounts(tokens) ==
    IF tokens = <<>> THEN <<>> ELSE AmountsLoop(MoneyMatches(tokens), <<>>)

InitAmounts ==
    /\ IdlePeriod /\ IdleJe /\ IdleVar /\ IdleDr /\ IdleRun
    /\ IdlePdf /\ IdleBatch /\ IdleCsv /\ IdleMore
    /\ segment_text \in SeqsUpTo(SegmentTokens, MaxTokens)
    /\ amounts_out = <<>>
    /\ amounts_pc = "segment"

ExtractAmounts ==
    /\ amounts_pc = "segment"
    /\ amounts_out' = extract_amounts(segment_text)
    /\ amounts_pc' = "extracted"
    /\ UNCHANGED <<periodVars, jeVars, varVars, drVars, runVars,
                   segment_text, pdfVars, batchVars, csvVars, moreVars>>

NextAmounts == ExtractAmounts

SpecAmounts == InitAmounts /\ [][NextAmounts]_vars

\* the signed money amounts of the segment in text order: a dash before the
\* pound sign makes the amount negative
SegmentAmounts ==
    LET money == {i \in DOMAIN segment_text : segment_text[i].kind = "money"}
        RECURSIVE Listed(_)
        Listed(idx) ==
            IF idx = {} THEN <<>>
            ELSE LET i == SetMin(idx)
                     t == segment_text[i]
                 IN  <<IF t.sign = "" THEN t.value ELSE 0 - t.value>>
                     \o Listed(idx \ {i})
    IN  Listed(money)

ReasonLabels ==
    [cancelled_order |-> "Restaurant Comp - Cancelled Order",
     recook |-> "Partner Compensation Recook",
     compensation_credit |-> "Customer Compensation Credit"]

\* parse_reason_and_order: <<reason, order_number>>
parse_reason_and_order(desc) ==
    CASE desc.label = "customer_compensation" -> <<desc.reason_text, desc.order>>
      [] desc.label = "cancelled_order" -> <<ReasonLabels.cancelled_order, desc.order>>
      [] desc.label = "recook" -> <<ReasonLabels.recook, desc.order>>
      [] desc.label = "compensation_credit" -> <<ReasonLabels.compensation_credit, desc.order>>
      [] OTHER -> <<"", Blank>>

build_refund_dataframe(descriptions, amounts) ==
    [i \in 1..Min(Len(descriptions), Len(amounts)) |->
        LET parsed == parse_reason_and_order(descriptions[i])
        IN  [description |-> descriptions[i],
             amount |-> amounts[i],
             reason |-> parsed[1],
             order_number |-> parsed[2],
             outside_scope |-> descriptions[i].vat_note]]

\* df_full["description"].str.contains("Commission", case=False)
ContainsCommission(e) == e.description.label = "commission"

AmountsOf(rows) == [i \in 1..Len(rows) |-> rows[i].amount]

commission_sum(df) == SumSeq(AmountsOf(SelectSeq(df, ContainsCommission)))

marketing_sum(df) ==
    LET Remainder(e) == ~ContainsCommission(e) /\ e.reason = ""
    IN  SumSeq(AmountsOf(SelectSeq(df, Remainder)))

\* mutant: the sign of the net amount is kept
GrossUpSameSign(net) == Round2((net * 12) \div 10)

\* round(net * 1.20 * -1, 2)
GrossUp(net) == Round2((0 - net * 12) \div 10)

RECURSIVE UniqueInOrder(_)
\* Series.unique(): the distinct values in order of first appearance
UniqueInOrder(s) ==
    IF s = <<>> THEN <<>>
    ELSE LET rest == UniqueInOrder(SelectSeq(Tail(s), LAMBDA x : x # Head(s)))
         IN  <<Head(s)>> \o rest

RECURSIVE SortedKeys(_)
\* groupby sorts the group keys
SortedKeys(S) == IF S = {} THEN <<>> ELSE <<SetMin(S)>> \o SortedKeys(S \ {SetMin(S)})

\* df_full[outside_scope & order_number.ne("")].groupby("order_number").agg(...)
RefundsByOrder(df) ==
    LET Refundable(e) == e.outside_scope /\ e.order_number # Blank
        sel == SelectSeq(df, Refundable)
        keys == SortedKeys({sel[i].order_number : i \in DOMAIN sel})
    IN  [k \in 1..Len(keys) |->
            LET OfOrder(e) == e.order_number = keys[k]
                group == SelectSeq(sel, OfOrder)
            IN  [order_id |-> keys[k],
                 amount |-> SumSeq(AmountsOf(group)),
                 reasons |-> UniqueInOrder([i \in 1..Len(group) |-> group[i].reason])]]

\* step 8 of process_single_pdf: the rows after the Order rows
AdjustmentRows(df) ==
    LET by_order == RefundsByOrder(df)
        refund_rows == [k \in 1..Len(by_order) |->
                            [type |-> "Refund", order_id |-> by_order[k].order_id,
                             refund_amount |-> 0 - by_order[k].amount,
                             total_incl_vat |-> 0,
                             reasons |-> by_order[k].reasons]]
        commission_rows ==
            IF commission_sum(df) # 0
            THEN <<[type |-> "Commission", order_id |-> Blank, refund_amount |-> 0,
                    total_incl_vat |-> GrossUp(commission_sum(df)), reasons |-> <<>>]>>
            ELSE <<>>
        marketing_rows ==
            IF marketing_sum(df) # 0
            THEN <<[type |-> "Marketing", order_id |-> Blank, refund_amount |-> 0,
                    total_incl_vat |-> GrossUp(marketing_sum(df)), reasons |-> <<>>]>>
            ELSE <<>>
    IN  refund_rows \o commission_rows \o marketing_rows

\* Descriptions: commission and other charges, and compensation entries on two
\* orders, with and without the VAT note.
ChargeDescriptions ==
    [label : {"commission", "other"}, reason_text : {""}, order : {Blank},
     vat_note : {FALSE}]

CompensationDescriptions ==
    [label : {"customer_compensation"}, reason_text : {"Missing items"},
     order : {1, 2}, vat_note : BOOLEAN]
    \cup [label : {"compensation_credit"}, reason_text : {""}, order : {1},
          vat_note : BOOLEAN]
    \cup [label : {"cancelled_order", "recook"}, reason_text : {""}, order : {2},
          vat_note : {TRUE}]

\* 20.00, 0.01 and a credit of 20.00 on charges; 5.00 on compensation entries
AdjustmentEntries ==
    [description : ChargeDescriptions, amount : {20000, 10, 0 - 20000}]
    \cup [description : CompensationDescriptions, amount : {5000}]

InitPdf ==
    /\ IdlePeriod /\ IdleJe /\ IdleVar /\ IdleDr /\ IdleRun
    /\ IdleAmounts /\ IdleBatch /\ IdleCsv /\ IdleMore
    /\ \E entries \in SeqsUpTo(AdjustmentEntries, MaxEntries) :
        df_full = build_refund_dataframe(
                    [i \in 1..Len(entries) |-> entries[i].description],
                    [i \in 1..Len(entries) |-> entries[i].amount])
    /\ pdf_rows = <<>>
    /\ pdf_pc = "parsed"

ProcessAdjustments ==
    /\ pdf_pc = "parsed"
    /\ pdf_rows' = AdjustmentRows(df_full)
    /\ pdf_pc' = "combined"
    /\ UNCHANGED <<periodVars, jeVars, varVars, drVars, runVars,
                   amountVars, df_full, batchVars, csvVars, moreVars>>

NextPdf == ProcessAdjustments

SpecPdf == InitPdf /\ [][NextPdf]_vars

RowsOfType(type) == SelectSeq(pdf_rows, LAMBDA r : r.type = type)

RECURSIVE TotalOver(_)
\* the sum of the amounts of the entries at the given positions
TotalOver(idx) ==
    IF idx = {} THEN 0
    ELSE LET i == CHOOSE j \in idx : TRUE
         IN  df_full[i].amount + TotalOver(idx \ {i})

CommissionLabelled == {i \in DOMAIN df_full : df_full[i].description.label = "commission"}

ReferenceLessRemainder ==
    {i \in DOMAIN df_full : /\ df_full[i].description.label # "commission"
                            /\ df_full[i].description.order = Blank}

\* C17: the commission total is the sum of the commission-labelled entries,
\* the marketing total the sum of the remaining entries without an order
\* reference; a Commission / Marketing row is emitted exactly when its total
\* is non-zero and carries the total grossed up by 20% with the sign
\* inverted, to the penny (net 20.00 gives -24.00).
C17_CommissionMarketing ==
    pdf_pc = "combined" =>
        LET commission == TotalOver(CommissionLabelled)
            marketing == TotalOver(ReferenceLessRemainder)
            Emitted(type, total) ==
                LET rows == RowsOfType(type)
                IN  /\ Len(rows) = (IF total # 0 THEN 1 ELSE 0)
                    /\ \A k \in DOMAIN rows :
                        /\ rows[k].total_incl_vat = Round2((0 - 12 * total) \div 10)
                        /\ rows[k].refund_amount = 0
        IN  /\ Emitted("Commission", commission)
            /\ Emitted("Marketing", marketing)
            /\ (commission = 20000 /\ marketing = 0) =>
                    /\ RowsOfType("Commission")[1].total_incl_vat = 0 - 24000
                    /\ RowsOfType("Marketing") = <<>>

\* commission of 20.00 and no marketing: one Commission row of -24.00 and no
\* Marketing row, next to a compensation entry that counts for neither
C17_Witness ==
    /\ pdf_pc = "combined"
    /\ TotalOver(CommissionLabelled) = 20000
    /\ TotalOver(ReferenceLessRemainder) = 0
    /\ \E i \in DOMAIN df_full : df_full[i].description.order # Blank
    /\ Len(RowsOfType("Commission")) = 1
    /\ RowsOfType("Marketing") = <<>>

\* the entries whose description one of the four patterns classifies
Classified ==
    {i \in DOMAIN df_full :
        df_full[i].description.label \in
            {"customer_compensation", "cancelled_order", "recook", "compensation_credit"}}

\* C18: every order reference that appears in a classified adjustment entry
\* yields exactly one Refund row, whose refund amount is the negated sum of
\* all that order's adjustment amounts and whose reason is the union of their
\* distinct reasons; every Refund row belongs to such an order.
C18_RefundEmission ==
    pdf_pc = "combined" =>
        LET refunds == RowsOfType("Refund")
            orders == {df_full[i].description.order : i \in Classified}
        IN  /\ \A o \in orders :
                LET mine == {i \in Classified : df_full[i].description.order = o}
                    rows == {k \in DOMAIN refunds : refunds[k].order_id = o}
                IN  /\ Cardinality(rows) = 1
                    /\ \A k \in rows :
                        /\ refunds[k].refund_amount = 0 - TotalOver(mine)
                        /\ {refunds[k].reasons[n] : n \in DOMAIN refunds[k].reasons}
                            = {df_full[i].reason : i \in mine}
            /\ \A k \in DOMAIN refunds : refunds[k].order_id \in orders

(***************************************************************************)
(* One Deliveroo statement CSV (SpecCsv).  A line is kept as what the      *)
(* marker tests read from it: the section marker it starts with ("" for    *)
(* none) and the marker texts that occur anywhere in it.  A section is     *)
(* returned as the positions of its header and data lines.                 *)
(***************************************************************************)
OrdersMarker == "orders and related adjustments"
ContestedMarker == "payments for contested customer refunds"
OtherMarker == "other payments and fees"

SectionMarkers == {OrdersMarker, ContestedMarker, OtherMarker}

\* end_triggers passed by parse_deliveroo_csv for each section
EndTriggers(start_text) ==
    CASE start_text = OrdersMarker -> {ContestedMarker, OtherMarker}
      [] start_text = ContestedMarker -> {OtherMarker}
      [] OTHER -> {}

\* marker lines, a plain header or data line, and a data line whose text
\* mentions "other payments and fees"
CsvLines ==
    {[starts |-> m, mentions |-> {m}] : m \in SectionMarkers}
    \cup {[starts |-> "", mentions |-> {}], [starts |-> "", mentions |-> {OtherMarker}]}

NoSection == [status |-> "none", header |-> 0, data |-> {}]
SectionRaised == [status |-> "raised", header |-> 0, data |-> {}]
NotCalled == [status |-> "not_called", header |-> 0, data |-> {}]

\* extract_section; lines[start_idx + 1] past the end raises IndexError
extract_section(lines, start_text, end_triggers) ==
    LET starts == {i \in DOMAIN lines : lines[i].starts = start_text}
    IN  IF starts = {} THEN NoSection
        ELSE LET start_idx == SetMin(starts)
                 ends == {i \in (start_idx + 2)..Len(lines) :
                            lines[i].mentions \cap end_triggers # {}}
                 end_idx == IF ends = {} THEN Len(lines) + 1 ELSE SetMin(ends)
                 data_lines == (start_idx + 2)..(end_idx - 1)
             IN  IF start_idx + 1 > Len(lines) THEN SectionRaised
                 ELSE IF data_lines = {} THEN NoSection
                 ELSE [status |-> "section", header |-> start_idx + 1,
                       data |-> data_lines]

\* parse_deliveroo_csv on the lines read: the three extractions in turn; an
\* exception raised by one ends the call
parse_deliveroo_csv(lines) ==
    LET orders == extract_section(lines, OrdersMarker, EndTriggers(OrdersMarker))
        contested == IF orders.status = "raised" THEN NotCalled
                     ELSE extract_section(lines, ContestedMarker,
                                          EndTriggers(ContestedMarker))
        other == IF "raised" \in {orders.status, contested.status} THEN NotCalled
                 ELSE extract_section(lines, OtherMarker, EndTriggers(OtherMarker))
        results == [orders |-> orders, contested |-> contested, other |-> other]
        names == DOMAIN results
    IN  [sections |-> results,
         returned |->
            IF lines = <<>> THEN "none"
            ELSE IF \E n \in names : results[n].status = "raised" THEN "raised"
            ELSE IF \A n \in names : results[n].status # "section" THEN "none"
            ELSE "dataframe"]

InitCsv ==
    /\ IdlePeriod /\ IdleJe /\ IdleVar /\ IdleDr /\ IdleRun
    /\ IdleAmounts /\ IdlePdf /\ IdleBatch /\ IdleMore
    /\ csv_lines \in SeqsUpTo(CsvLines, MaxLines)
    /\ csv_sections = <<>>
    /\ csv_pc = "read"

ParseDeliverooCsv ==
    /\ csv_pc = "read"
    /\ csv_sections' = parse_deliveroo_csv(csv_lines)
    /\ csv_pc' = "parsed"
    /\ UNCHANGED <<periodVars, jeVars, varVars, drVars, runVars,
                   amountVars, pdfVars, batchVars, csv_lines, moreVars>>

NextCsv == ParseDeliverooCsv

SpecCsv == InitCsv /\ [][NextCsv]_vars

SectionOf == [orders |-> OrdersMarker, contested |-> ContestedMarker, other |-> OtherMarker]

\* the positions of the lines that start with the marker of a section
MarkerLines(name) == {i \in DOMAIN csv_lines : csv_lines[i].starts = SectionOf[name]}

\* the lines after the header of the section up to the next line that is a
\* section marker, or to the end of the file
RowsUpToNextMarker(name) ==
    LET start == SetMin(MarkerLines(name))
        markers == {i \in (start + 2)..Len(csv_lines) : csv_lines[i].starts # ""}
        stop == IF markers = {} THEN Len(csv_lines) + 1 ELSE SetMin(markers)
    IN  (start + 2)..(stop - 1)

\* C19: extract_section takes the first line starting with the marker, the
\* next line as header, and as data rows exactly the lines after the header
\* up to, and excluding, the next line that is a section marker, or up to the
\* end of the file: marker text inside a data row cuts nothing off, and no
\* line is a data row of two sections of the file.
C19_SectionExtraction ==
    csv_pc = "parsed" =>
        LET res == csv_sections.sections
        IN  /\ \A n \in DOMAIN res :
                res[n].status = "section" =>
                    /\ res[n].header = SetMin(MarkerLines(n)) + 1
                    /\ res[n].data = RowsUpToNextMarker(n)
            /\ \A n \in DOMAIN res :
                (MarkerLines(n) # {} /\ res[n].status = "none") =>
                    RowsUpToNextMarker(n) = {}
            /\ \A n, m \in DOMAIN res : n # m => res[n].data \cap res[m].data = {}

\* C20: extract_section returns "no section" without raising when the marker
\* is absent, when no data rows follow the header and when the marker is the
\* last line of the file; parse_deliveroo_csv then still returns the other
\* sections of the file.
C20_MissingSectionNotFatal ==
    csv_pc = "parsed" =>
        LET res == csv_sections.sections
        IN  /\ csv_sections.returned # "raised"
            /\ \A n \in DOMAIN res :
                /\ res[n].status \in {"none", "section"}
                /\ MarkerLines(n) = {} => res[n].status = "none"
                /\ (MarkerLines(n) # {} /\ SetMin(MarkerLines(n)) + 1 >= Len(csv_lines))
                        => res[n].status = "none"
            /\ (\E n \in DOMAIN res : res[n].status = "section")
                    => csv_sections.returned = "dataframe"

(***************************************************************************)
(* A parser run over a statement folder (SpecBatch): run_je_pdf_parser and *)
(* run_dr_csv_parser.  The folder is taken after the renaming step, in the *)
(* order the run processes it.  A Just Eat document is kept as the point   *)
(* at which process_single_pdf leaves it; a Deliveroo document as its      *)
(* lines, or as unreadable.  The consolidated file is kept as the          *)
(* positions of the documents whose rows it holds.                         *)
(***************************************************************************)
\* process_single_pdf: "rows", "skipped" (returns None) or "raised"
process_single_pdf(doc) ==
    CASE doc.kind = "unreadable" -> "skipped"       \* pdfplumber.open fails, caught
      [] doc.kind = "no_header" -> "skipped"        \* no statement period found
      [] doc.kind = "segment_error" -> "raised"     \* get_segment_text raises
      [] doc.kind = "no_rows" -> "skipped"          \* combined_rows empty
      [] OTHER -> "rows"

\* parse_deliveroo_csv on a file of the folder
parse_csv_file(doc) ==
    IF doc.kind = "unreadable" THEN "skipped"
    ELSE LET parsed == parse_deliveroo_csv(doc.lines).returned
         IN  CASE parsed = "dataframe" -> "rows"
               [] parsed = "raised" -> "raised"
               [] OTHER -> "skipped"

DocOutcome(provider, doc) ==
    IF provider = "je" THEN process_single_pdf(doc) ELSE parse_csv_file(doc)

\* the loop over the documents in the window and what follows it
run_parser(provider, docs, file_before) ==
    LET valid == {i \in DOMAIN docs : docs[i].in_window}
        raised == {i \in valid : DocOutcome(provider, docs[i]) = "raised"}
        all_rows == {i \in valid : DocOutcome(provider, docs[i]) = "rows"}
    IN  IF docs = <<>> \/ valid = {} THEN [returned |-> "none", file |-> file_before]
        ELSE IF raised # {} THEN [returned |-> "raised", file |-> file_before]
        ELSE IF all_rows = {} THEN [returned |-> "none", file |-> file_before]
        ELSE [returned |-> "path",
              file |-> [exists |-> TRUE, rows |-> SortedKeys(all_rows)]]

JeDocs ==
    [in_window : {TRUE}, lines : {<<>>},
     kind : {"rows", "unreadable", "no_header", "no_rows", "segment_error"}]
    \cup [in_window : {FALSE}, lines : {<<>>}, kind : {"rows"}]

\* a file with an Orders section, one with no marker, one that ends on a marker
OrdersFile ==
    <<[starts |-> OrdersMarker, mentions |-> {OrdersMarker}],
      [starts |-> "", mentions |-> {}], [starts |-> "", mentions |-> {}]>>

NoMarkerFile == <<[starts |-> "", mentions |-> {}]>>

MarkerLastFile == <<[starts |-> OrdersMarker, mentions |-> {OrdersMarker}]>>

CsvFiles == {OrdersFile, NoMarkerFile, MarkerLastFile, <<>>}

DrDocs ==
    [in_window : {TRUE}, lines : CsvFiles, kind : {"csv"}]
    \cup {[in_window |-> TRUE, lines |-> <<>>, kind |-> "unreadable"],
          [in_window |-> FALSE, lines |-> OrdersFile, kind |-> "csv"]}

InitBatch ==
    /\ IdlePeriod /\ IdleJe /\ IdleVar /\ IdleDr /\ IdleRun
    /\ IdleAmounts /\ IdlePdf /\ IdleCsv /\ IdleMore
    /\ \/ batch_provider = "je" /\ batch_docs \in SeqsUpTo(JeDocs, MaxDocs)
       \/ batch_provider = "dr" /\ batch_docs \in SeqsUpTo(DrDocs, MaxDocs)
    /\ batch_file \in {NoFile, [exists |-> TRUE, rows |-> <<>>]}
    /\ batch_result = [returned |-> "idle", file_before |-> NoFile]

RunParser(provider) ==
    /\ batch_provider = provider
    /\ batch_result.returned = "idle"
    /\ LET run == run_parser(provider, batch_docs, batch_file)
       IN  /\ batch_file' = run.file
           /\ batch_result' = [returned |-> run.returned, file_before |-> batch_file]
    /\ UNCHANGED <<periodVars, jeVars, varVars, drVars, runVars,
                   amountVars, pdfVars, batch_provider, batch_docs, csvVars, moreVars>>

RunJePdfParser == RunParser("je")

RunDrCsvParser == RunParser("dr")

NextBatch == RunJePdfParser \/ RunDrCsvParser

SpecBatch == InitBatch /\ [][NextBatch]_vars

BatchRan == batch_result.returned # "idle"

\* the documents of the window that, taken alone, yield rows
Processable ==
    {i \in DOMAIN batch_docs :
        /\ batch_docs[i].in_window
        /\ IF batch_provider = "je" THEN batch_docs[i].kind = "rows"
           ELSE batch_docs[i].kind = "csv" /\ batch_docs[i].lines = OrdersFile}

\* C12: in a batch of in-window statement documents a failure in one document
\* (unreadable, no period header, zero rows, or an error raised while its
\* adjustments section is extracted) skips that document only: every other
\* document is processed and its rows are in the consolidated output.
C12_PartialFailureTolerance ==
    (BatchRan /\ batch_provider = "je") =>
        \A i \in Processable :
            /\ batch_result.returned = "path"
            /\ batch_file.exists
            /\ \E k \in DOMAIN batch_file.rows : batch_file.rows[k] = i

\* C13: a parser run in which no document is processed successfully returns
\* no output path and writes no consolidated file, and no exception escapes.
C13_ZeroDocumentsFails ==
    (BatchRan /\ Processable = {}) =>
        /\ batch_result.returned = "none"
        /\ batch_file = batch_result.file_before

\* the position of a transaction type in the ascending (alphabetical) order
TypeRank(type) ==
    CASE type = "Commission" -> 1
      [] type = "Marketing" -> 2
      [] type = "Order" -> 3
      [] OTHER -> 4

\* (reference, transaction type) of row a is not after that of row b; all rows
\* of a run share one statement window
KeyNotAfter(a, b) ==
    \/ a.je_order_id < b.je_order_id
    \/ /\ a.je_order_id = b.je_order_id
       /\ TypeRank(a.transaction_type) <= TypeRank(b.transaction_type)

SortedByKey(rows) ==
    \A i, j \in DOMAIN rows : i < j => KeyNotAfter(rows[i], rows[j])

\* C21: the reconciliation output dataset is sorted by (period-window start,
\* order reference, transaction type); checked for statement extracts that
\* arrive in that order, as the parser writes them.
C21_OutputSorted ==
    (Saved /\ SortedByKey(je_df)) => SortedByKey(final_df)

(***************************************************************************)
(* Column assembly: finalise_columns (JE02_data_reconciliation.py).        *)
(* A frame is a sequence of columns; a column is its label and the         *)
(* position, in the frame handed in, of the data it carries.               *)
(***************************************************************************)
MaxCols == 3

\* the documented provider order, cut down to three of its labels in the
\* order the list gives them
JUSTEAT_RECON_COLUMN_ORDER == <<"mp_order_id", "je_total", "je_order_id">>

\* labels a merged frame can carry: two documented ones and three the ledger
\* extract brought along
ColumnLabels == {"mp_order_id", "je_total", "zone", "promo-code", "promocode"}

\* C11's standardise_columns: the labels above are already lower-case,
\* trimmed and free of spaces, which is the form it produces
standardise_columns(labels) == labels

\* str.replace(r"[^\w_]", ""): every character that is not a letter, a digit
\* or an underscore is removed from the label
CleanLabel(label) ==
    CASE label = "promo-code" -> "promocode"
      [] OTHER -> label

LabelsOf(frame) == {frame[i].label : i \in DOMAIN frame}

\* df[labels]: for each requested label in turn, every column of the frame
\* that carries the label, in frame order
RECURSIVE GetColumns(_, _)
GetColumns(frame, labels) ==
    IF labels = <<>> THEN <<>>
    ELSE SelectSeq(frame, LAMBDA col : col.label = Head(labels))
            \o GetColumns(frame, Tail(labels))

finalise_column_order(labels) ==
    LET std == standardise_columns(labels)
        df == [i \in DOMAIN std |-> [label |-> CleanLabel(std[i]), src |-> i]]
        columns == [i \in DOMAIN df |-> df[i].label]
        ordered == SelectSeq(JUSTEAT_RECON_COLUMN_ORDER,
                             LAMBDA c : c \in LabelsOf(df))
        remaining == SelectSeq(columns,
                               LAMBDA c : \A k \in DOMAIN ordered : ordered[k] # c)
        final_cols == ordered \o remaining
    IN GetColumns(df, final_cols)

\* frames of up to MaxCols columns with distinct labels
InitCols ==
    /\ cols_in \in {f \in UNION {[1..n -> ColumnLabels] : n \in 0..MaxCols} :
                        \A i, j \in DOMAIN f : i # j => f[i] # f[j]}
    /\ cols_out = <<>>
    /\ cols_pc = "merged"
    /\ IdleBase /\ IdleMoreExcept("cols")

FinaliseColumns ==
    /\ cols_pc = "merged"
    /\ cols_out' = finalise_column_order(cols_in)
    /\ cols_pc' = "finalised"
    /\ UNCHANGED cols_in
    /\ UNCHANGED baseVars /\ UnchangedMoreExcept("cols")

NextCols == FinaliseColumns

SpecCols == InitCols /\ [][NextCols]_vars

Documented(label) ==
    \E k \in DOMAIN JUSTEAT_RECON_COLUMN_ORDER : JUSTEAT_RECON_COLUMN_ORDER[k] = label

DocumentedRank(label) ==
    CHOOSE k \in DOMAIN JUSTEAT_RECON_COLUMN_ORDER : JUSTEAT_RECON_COLUMN_ORDER[k] = label

\* column a may stand before column b: documented before unrecognised,
\* documented ones in the documented order, unrecognised ones in input order
MayPrecede(a, b) ==
    IF Documented(a.label)
    THEN Documented(b.label) => DocumentedRank(a.label) <= DocumentedRank(b.label)
    ELSE ~Documented(b.label) /\ a.src <= b.src

\* C22: finalise_columns returns every column of the frame handed in exactly
\* once, none dropped and none duplicated: the documented columns first in
\* the documented order, then the unrecognised ones in their original order.
C22_ColumnAssembly ==
    cols_pc = "finalised" =>
        /\ \A i \in DOMAIN cols_in :
              Cardinality({k \in DOMAIN cols_out : cols_out[k].src = i}) = 1
        /\ Len(cols_out) = Len(cols_in)
        /\ \A j, k \in DOMAIN cols_out : j < k => MayPrecede(cols_out[j], cols_out[k])

\* C27: a statement Order or Refund transaction is categorised Matched only
\* if the ledger extract holds an order whose cleaned reference equals the
\* transaction's reference.
C27_MatchedNeedsLedgerOrder ==
    Saved =>
        \A i \in DOMAIN final_df :
            (/\ final_df[i].transaction_type \in {"Order", "Refund"}
             /\ final_df[i].order_category = "Matched")
            => \E k \in DOMAIN dwh_df : dwh_df[k].mp_order_id = final_df[i].je_order_id

\* C28: each ledger order is attached to at most one statement delivery: no
\* two Matched rows of the matching carry the same ledger row.
C28_LedgerRowAttachedOnce ==
    dr_pc = "done" =>
        \A i, j \in DOMAIN dr_matched_df :
            (/\ i # j
             /\ dr_matched_df[i].order_category = "Matched"
             /\ dr_matched_df[j].order_category = "Matched")
            => dr_matched_df[i].dwh_idx # dr_matched_df[j].dwh_idx

(***************************************************************************)
(* Descriptions of a commission / refund segment: extract_descriptions     *)
(* (JE01_parse_pdfs.py).  A line of the segment is the text that is left   *)
(* of it once its currency amounts are taken out, and the number of        *)
(* currency amounts it holds.  A description is the sequence of the line   *)
(* texts joined into it.                                                   *)
(***************************************************************************)
MaxDescLines == 3

\* "Refund" begins with an upper-case letter, "for order" does not
DescLineInputs == [text : {"", "Refund", "for order"}, amounts : {0, 1, 2}]

\* ln[0].isupper()
StartsUpper(text) == text = "Refund"

\* lines 187-191: blank lines are dropped, then the lines that are one
\* currency amount and nothing else (fullmatch); the amounts are removed
\* from the others
DescriptionLines(lines) ==
    LET non_blank == SelectSeq(lines, LAMBDA ln : ln.text # "" \/ ln.amounts > 0)
        kept == SelectSeq(non_blank, LAMBDA ln : ~(ln.text = "" /\ ln.amounts = 1))
    IN  [i \in DOMAIN kept |-> kept[i].text]

\* the loop of lines 193-201; ln[0] of an empty line raises IndexError
RECURSIVE MergeLines(_, _)
MergeLines(lines, merged) ==
    IF lines = <<>> THEN [raised |-> FALSE, merged |-> merged]
    ELSE IF merged = <<>>
    THEN MergeLines(Tail(lines), <<<<Head(lines)>>>>)
    ELSE IF Head(lines) = ""
    THEN [raised |-> TRUE, merged |-> merged]
    ELSE IF StartsUpper(Head(lines))
    THEN MergeLines(Tail(lines), Append(merged, <<Head(lines)>>))
    ELSE MergeLines(Tail(lines),
            [merged EXCEPT ![Len(merged)] = Append(@, Head(lines))])

\* lines 203-204: runs of spaces collapse and the ends are stripped, so the
\* empty texts joined into a description vanish; empty descriptions go
extract_descriptions(lines) ==
    LET loop == MergeLines(DescriptionLines(lines), <<>>)
        stripped == [i \in DOMAIN loop.merged |->
                        SelectSeq(loop.merged[i], LAMBDA t : t # "")]
    IN  IF loop.raised
        THEN [raised |-> TRUE, descriptions |-> <<>>]
        ELSE [raised |-> FALSE,
              descriptions |-> SelectSeq(stripped, LAMBDA d : d # <<>>)]

InitDesc ==
    /\ desc_lines \in SeqsUpTo(DescLineInputs, MaxDescLines)
    /\ desc_out = [raised |-> FALSE, descriptions |-> <<>>]
    /\ desc_pc = "segment"
    /\ IdleBase /\ IdleMoreExcept("desc")

ExtractDescriptions ==
    /\ desc_pc = "segment"
    /\ desc_out' = extract_descriptions(desc_lines)
    /\ desc_pc' = "extracted"
    /\ UNCHANGED desc_lines
    /\ UNCHANGED baseVars /\ UnchangedMoreExcept("desc")

NextDesc == ExtractDescriptions

SpecDesc == InitDesc /\ [][NextDesc]_vars

\* C26: extract_descriptions raises for no segment, lines that are empty
\* once their currency amounts are stripped included; every description it
\* returns is non-empty, and only its first line may begin with an
\* upper-case letter (a new description starts at such a line, every other
\* line is appended to the current one).
C26_DescriptionAssembly ==
    desc_pc = "extracted" =>
        /\ ~desc_out.raised
        /\ \A i \in DOMAIN desc_out.descriptions :
              /\ desc_out.descriptions[i] # <<>>
              /\ \A k \in DOMAIN desc_out.descriptions[i] :
                    k > 1 => ~StartsUpper(desc_out.descriptions[i][k])

(***************************************************************************)
(* Deliveroo Step 1: the scan for unmapped restaurant names                *)
(* (get_unmapped_mfcs, DR001_parse_csvs.py) and the click handler that     *)
(* gates the parser on it (_on_dr_step1_clicked, G10b_gui_controller.py).  *)
(* A statement file is whether its date lies in the statement window and   *)
(* its lines; a line carries, besides what the marker tests read, the      *)
(* restaurant name of the row ("" on marker and header lines).             *)
(***************************************************************************)
MaxMfcFiles == 2

RestaurantNames == {"Camden", "Leeds"}

MarkerLine(m) == [starts |-> m, mentions |-> {m}, restaurant_name |-> ""]

HeaderLine == [starts |-> "", mentions |-> {}, restaurant_name |-> ""]

DataLine(name, mentions) ==
    [starts |-> "", mentions |-> mentions, restaurant_name |-> name]

\* an Orders section with one delivery row
PlainStatement(name) ==
    <<MarkerLine(OrdersMarker), HeaderLine, DataLine(name, {})>>

\* an Orders section of two rows; the text of the second row mentions
\* "other payments and fees"
MentionStatement(first, second) ==
    <<MarkerLine(OrdersMarker), HeaderLine, DataLine(first, {}),
      DataLine(second, {OtherMarker})>>

\* an Orders section followed by the "Other payments and fees" marker with
\* nothing under it
EndsOnMarkerStatement(name) ==
    <<MarkerLine(OrdersMarker), HeaderLine, DataLine(name, {}),
      MarkerLine(OtherMarker)>>

StatementFiles ==
    [in_window : BOOLEAN, lines : {PlainStatement(n) : n \in RestaurantNames}]
    \cup [in_window : {TRUE},
          lines : {MentionStatement("Camden", "Leeds")}
                  \cup {EndsOnMarkerStatement(n) : n \in RestaurantNames}]

\* the restaurant names of the rows parse_deliveroo_csv returns for a file
ParsedNames(lines) ==
    LET parsed == parse_deliveroo_csv(lines)
        rows == UNION {parsed.sections[n].data : n \in DOMAIN parsed.sections}
    IN  {lines[i].restaurant_name : i \in rows} \ {""}

\* get_unmapped_mfcs: files outside the window, files that parse to nothing
\* and files whose parse raises are passed over (the sorted list of unique
\* names is kept as a set)
get_unmapped_mfcs(files, mapping) ==
    UNION {IF files[i].in_window
              /\ parse_deliveroo_csv(files[i].lines).returned = "dataframe"
           THEN ParsedNames(files[i].lines) \ mapping
           ELSE {} : i \in DOMAIN files}

\* load_mfc_mapping after save_mfc_mapping wrote the names the dialog held
save_mfc_mapping(mapping, pending) == mapping \cup pending

InitMfc ==
    /\ mfc_files \in SeqsUpTo(StatementFiles, MaxMfcFiles)
    /\ mfc_scanned = <<>>
    /\ mfc_mapping \in SUBSET RestaurantNames
    /\ mfc_unmapped = {}
    /\ mfc_parser = [started |-> FALSE, mfc_mapping |-> {}]
    /\ mfc_pc = "ready"
    /\ IdleBase /\ IdleMoreExcept("mfc")

\* the scan and what the handler does with its result: the dialog while a
\* name is unmapped, the parser thread otherwise
ScanAndGate(mapping) ==
    LET unmapped == get_unmapped_mfcs(mfc_files, mapping)
    IN  /\ mfc_scanned' = mfc_files
        /\ mfc_unmapped' = unmapped
        /\ IF unmapped # {}
           THEN mfc_pc' = "dialog" /\ UNCHANGED mfc_parser
           ELSE /\ mfc_pc' = "parsing"
                /\ mfc_parser' = [started |-> TRUE, mfc_mapping |-> mapping]

\* _on_dr_step1_clicked up to the first dialog or the thread start
OnDrStep1Clicked ==
    /\ mfc_pc = "ready"
    /\ ScanAndGate(mfc_mapping)
    /\ UNCHANGED <<mfc_files, mfc_mapping>>
    /\ UNCHANGED baseVars /\ UnchangedMoreExcept("mfc")

\* the user mapped every listed name and pressed Continue: the mapping is
\* saved, reloaded, and the folder is scanned again
DialogContinue ==
    /\ mfc_pc = "dialog"
    /\ mfc_mapping' = save_mfc_mapping(mfc_mapping, mfc_unmapped)
    /\ ScanAndGate(mfc_mapping')
    /\ UNCHANGED mfc_files
    /\ UNCHANGED baseVars /\ UnchangedMoreExcept("mfc")

\* the user pressed Cancel or closed the dialog: the handler returns
DialogCancel ==
    /\ mfc_pc = "dialog"
    /\ mfc_pc' = "cancelled"
    /\ UNCHANGED <<mfc_files, mfc_scanned, mfc_mapping, mfc_unmapped, mfc_parser>>
    /\ UNCHANGED baseVars /\ UnchangedMoreExcept("mfc")

\* a statement file arrives in the folder while the dialog is open
StatementFileArrives ==
    /\ mfc_pc = "dialog"
    /\ Len(mfc_files) < MaxMfcFiles
    /\ \E f \in StatementFiles : mfc_files' = Append(mfc_files, f)
    /\ UNCHANGED <<mfc_scanned, mfc_mapping, mfc_unmapped, mfc_parser, mfc_pc>>
    /\ UNCHANGED baseVars /\ UnchangedMoreExcept("mfc")

NextMfc == OnDrStep1Clicked \/ DialogContinue \/ DialogCancel \/ StatementFileArrives

SpecMfc == InitMfc /\ [][NextMfc]_vars

\* every restaurant name on a row of an in-window file
NamesOccurring(files) ==
    UNION {{files[i].lines[k].restaurant_name : k \in DOMAIN files[i].lines} :
              i \in {j \in DOMAIN files : files[j].in_window}} \ {""}

\* C23: the scan returns every distinct restaurant name that occurs in an
\* in-window statement file and has no mapping; while a name is unmapped the
\* list is shown and the parser is not started; the parser is started only
\* when no name is unmapped; cancelling the dialog ends the step without
\* parsing.
C23_UnmappedSurfaced ==
    /\ mfc_pc \in {"dialog", "cancelled"} =>
          /\ mfc_unmapped = NamesOccurring(mfc_scanned) \ mfc_mapping
          /\ mfc_unmapped # {}
          /\ ~mfc_parser.started
    /\ mfc_pc = "parsing" =>
          /\ mfc_parser.started
          /\ NamesOccurring(mfc_scanned) \ mfc_parser.mfc_mapping = {}

(***************************************************************************)
(* Braintree file renaming: analyse_braintree_files and                    *)
(* rename_braintree_files (BT01_parse_csvs.py).  A file is the identity of *)
(* its content, the earliest transaction date read from it (month * 100 +  *)
(* day, NoDate when no date range can be read) and its name: a standard    *)
(* name 'YY.MM - Braintree Data (x of y).csv' or the name it was           *)
(* downloaded under, which is distinct per file.                           *)
(***************************************************************************)
MaxBtFiles == 3

MaxBtRuns == 2

NoDate == 0

BtDates == {NoDate, 1003, 1017, 1105}

MonthKey(min_date) == min_date \div 100

DownloadName(id) == [std |-> FALSE, month |-> 0, x |-> id, y |-> 0]

StandardName(month, x, y) == [std |-> TRUE, month |-> month, x |-> x, y |-> y]

\* csv_folder.glob("*.csv"): the files in an order the file system chooses
GlobOrders(folder) ==
    {g \in [1..Cardinality(folder) -> folder] :
        \A i, j \in DOMAIN g : i # j => g[i] # g[j]}

\* analyse_braintree_files, one month group: the files of the listing that
\* have no standard name yet and a readable date range in the month
analyse_braintree_files(listing, month) ==
    SelectSeq(listing, LAMBDA f : /\ ~f.name.std
                                  /\ f.min_date # NoDate
                                  /\ MonthKey(f.min_date) = month)

\* files.sort(key=min_date): stable
RECURSIVE SortByMinDate(_)
SortByMinDate(files) ==
    IF files = <<>> THEN <<>>
    ELSE LET rest == SortByMinDate(SubSeq(files, 1, Len(files) - 1))
             last == files[Len(files)]
             before == SelectSeq(rest, LAMBDA f : f.min_date <= last.min_date)
             after == SelectSeq(rest, LAMBDA f : f.min_date > last.min_date)
         IN  before \o <<last>> \o after

\* the inner loop of rename_braintree_files for one month: a target name
\* that exists is skipped, otherwise the file is renamed
RECURSIVE RenameMonth(_, _, _, _)
RenameMonth(files, seq_num, month, folder) ==
    IF seq_num > Len(files) THEN folder
    ELSE LET file == files[seq_num]
             new_name == StandardName(month, seq_num, Len(files))
             exists == \E g \in folder : g.name = new_name /\ g # file
             renamed == (folder \ {file}) \cup {[file EXCEPT !.name = new_name]}
         IN  RenameMonth(files, seq_num + 1, month,
                         IF exists THEN folder ELSE renamed)

\* the outer loop: the months in ascending order
RECURSIVE RenameMonths(_, _, _)
RenameMonths(months, listing, folder) ==
    IF months = {} THEN folder
    ELSE LET month == SetMin(months)
             files == SortByMinDate(analyse_braintree_files(listing, month))
         IN  RenameMonths(months \ {month}, listing,
                          RenameMonth(files, 1, month, folder))

rename_braintree_files(listing, folder) ==
    LET months == {MonthKey(listing[i].min_date) :
                     i \in {k \in DOMAIN listing : /\ ~listing[k].name.std
                                                   /\ listing[k].min_date # NoDate}}
    IN  RenameMonths(months, listing, folder)

\* freshly downloaded files
InitBt ==
    /\ \E dates \in SeqsUpTo(BtDates, MaxBtFiles - 1) :
          bt_folder = {[id |-> i, min_date |-> dates[i], name |-> DownloadName(i)] :
                          i \in DOMAIN dates}
    /\ bt_runs = 0
    /\ bt_pc = "downloaded"
    /\ IdleBase /\ IdleMoreExcept("bt")

RenameBraintreeFiles ==
    /\ bt_runs < MaxBtRuns
    /\ \E listing \in GlobOrders(bt_folder) :
          bt_folder' = rename_braintree_files(listing, bt_folder)
    /\ bt_runs' = bt_runs + 1
    /\ bt_pc' = "renamed"
    /\ UNCHANGED baseVars /\ UnchangedMoreExcept("bt")

\* a further download is put into the folder
AddBraintreeFile ==
    /\ Cardinality(bt_folder) < MaxBtFiles
    /\ \E d \in BtDates :
          bt_folder' = bt_folder \cup
              {[id |-> Cardinality(bt_folder) + 1, min_date |-> d,
                name |-> DownloadName(Cardinality(bt_folder) + 1)]}
    /\ bt_pc' = "downloaded"
    /\ UNCHANGED bt_runs
    /\ UNCHANGED baseVars /\ UnchangedMoreExcept("bt")

NextBt == RenameBraintreeFiles \/ AddBraintreeFile

SpecBt == InitBt /\ [][NextBt]_vars

\* the files whose earliest transaction lies in the month
FilesOfMonth(month) ==
    {f \in bt_folder : f.min_date # NoDate /\ MonthKey(f.min_date) = month}

\* C24: after every run of rename_braintree_files, files added between runs
\* or not, every file with a readable date range has a standard name whose
\* month is that of its earliest transaction, y is the number of files of
\* the month, the x of a month are 1..y, each once, in the order of the
\* earliest transaction dates, and no file was overwritten.
C24_StandardNames ==
    bt_pc = "renamed" =>
        /\ \A f \in bt_folder :
              f.min_date # NoDate =>
                  /\ f.name.std
                  /\ f.name.month = MonthKey(f.min_date)
                  /\ f.name.y = Cardinality(FilesOfMonth(f.name.month))
                  /\ f.name.x \in 1..f.name.y
        /\ \A f, g \in bt_folder :
              (f # g /\ f.min_date # NoDate /\ g.min_date # NoDate
                     /\ MonthKey(f.min_date) = MonthKey(g.min_date)) =>
                  /\ f.name.x # g.name.x
                  /\ f.min_date < g.min_date => f.name.x < g.name.x
        /\ {f.id : f \in bt_folder} = 1..Cardinality(bt_folder)
        /\ \A f, g \in bt_folder : f.name = g.name => f = g

(***************************************************************************)
(* Navigator history (G04b_navigator.py), driven as the application menu   *)
(* drives it: navigate(name) with the default add_to_history, back,        *)
(* forward and reload.  _history_index is kept 0-based as in the code, so  *)
(* entry i of _history is nav_history[i + 1].                              *)
(***************************************************************************)
MaxHistory == 3

RegisteredPages == {"home", "settings", "about"}

can_go_back == nav_index > 0

can_go_forward == nav_index < Len(nav_history) - 1

\* mutant: the forward entries are kept when a new entry is added, the
\* index moves one entry on
add_to_history_keep_forward(history, index, name) ==
    [history |-> Append(history, name), index |-> index + 1]

\* _add_to_history: forward entries are cut, the entry is appended and
\* becomes the current one
add_to_history(history, index, name) ==
    LET kept == IF index < Len(history) - 1
                THEN SubSeq(history, 1, index + 1) ELSE history
    IN  [history |-> Append(kept, name), index |-> Len(kept)]

\* navigate: previous_page takes the current page if there is one, the page
\* is rendered or mounted from the cache, current_page is set
ShowPage(name) ==
    [current |-> name,
     previous |-> IF nav_page.current # "none"
                  THEN nav_page.current ELSE nav_page.previous]

Called(op, returned) ==
    [op |-> op, returned |-> returned, page_before |-> nav_page.current,
     history_before |-> nav_history, index_before |-> nav_index,
     prev_op |-> nav_last.op, prev_returned |-> nav_last.returned,
     prev_page_before |-> nav_last.page_before]

InitNav ==
    /\ nav_history = <<>>
    /\ nav_index = -1
    /\ nav_page = [current |-> "none", previous |-> "none"]
    /\ nav_last = NoCall
    /\ IdleBase /\ IdleMoreExcept("nav")

Navigate(name) ==
    /\ Len(nav_history) < MaxHistory \/ can_go_forward
    /\ nav_page' = ShowPage(name)
    /\ LET added == add_to_history(nav_history, nav_index, name)
       IN  nav_history' = added.history /\ nav_index' = added.index
    /\ nav_last' = Called("navigate", TRUE)
    /\ UNCHANGED baseVars /\ UnchangedMoreExcept("nav")

NavigateToPage == \E name \in RegisteredPages : Navigate(name)

Back ==
    /\ IF ~can_go_back
       THEN /\ nav_last' = Called("back", FALSE)
            /\ UNCHANGED <<nav_history, nav_index, nav_page>>
       ELSE /\ nav_index' = nav_index - 1
            /\ nav_page' = ShowPage(nav_history[nav_index' + 1])
            /\ nav_last' = Called("back", TRUE)
            /\ UNCHANGED nav_history
    /\ UNCHANGED baseVars /\ UnchangedMoreExcept("nav")

Forward ==
    /\ IF ~can_go_forward
       THEN /\ nav_last' = Called("forward", FALSE)
            /\ UNCHANGED <<nav_history, nav_index, nav_page>>
       ELSE /\ nav_index' = nav_index + 1
            /\ nav_page' = ShowPage(nav_history[nav_index' + 1])
            /\ nav_last' = Called("forward", TRUE)
            /\ UNCHANGED nav_history
    /\ UNCHANGED baseVars /\ UnchangedMoreExcept("nav")

Reload ==
    /\ IF nav_page.current = "none"
       THEN /\ nav_last' = Called("reload", FALSE)
            /\ UNCHANGED nav_page
       ELSE /\ nav_page' = ShowPage(nav_page.current)
            /\ nav_last' = Called("reload", TRUE)
    /\ UNCHANGED <<nav_history, nav_index>>
    /\ UNCHANGED baseVars /\ UnchangedMoreExcept("nav")

NextNav == NavigateToPage \/ Back \/ Forward \/ Reload

SpecNav == InitNav /\ [][NextNav]_vars

\* C25: after any sequence of navigate, back, forward and reload calls: a
\* navigate that adds to history leaves no forward entry (can_go_forward is
\* false right after it); back and forward add no history entry; at the
\* start / end of the history they return False and leave the page as it
\* was; back followed by forward returns to the page shown before the back.
C25_NavigatorHistory ==
    /\ nav_last.op = "navigate" =>
          /\ ~can_go_forward
          /\ nav_history[Len(nav_history)] = nav_page.current
    /\ nav_last.op \in {"back", "forward"} =>
          /\ nav_history = nav_last.history_before
          /\ nav_last.returned =
                (IF nav_last.op = "back"
                 THEN nav_last.index_before > 0
                 ELSE nav_last.index_before < Len(nav_last.history_before) - 1)
          /\ ~nav_last.returned =>
                /\ nav_page.current = nav_last.page_before
                /\ nav_index = nav_last.index_before
    /\ (/\ nav_last.op = "forward" /\ nav_last.prev_op = "back"
        /\ nav_last.prev_returned) =>
          /\ nav_last.returned
          /\ nav_page.current = nav_last.prev_page_before

\* a back that moved, from a page with other pages before it in a history
\* cut by an earlier navigate, followed by the forward
C25_Witness ==
    /\ nav_last.op = "forward" /\ nav_last.returned
    /\ nav_last.prev_op = "back" /\ nav_last.prev_returned
    /\ nav_page.current # nav_last.page_before
    /\ Len(nav_history) = MaxHistory

(***************************************************************************)
(* Hand-off of the Step 1 output to Step 2: the file name run_je_pdf_parser*)
(* / run_dr_csv_parser save under, and the name load_je_order_detail /     *)
(* load_dr_combined look for.  A file name is the pair of dates it is      *)
(* built from; both steps are run for the same statement window.           *)
(***************************************************************************)
\* one-week and two-week windows starting Mon 2025-10-20
StatementWindows ==
    {[stmt_start |-> 0, stmt_end_monday |-> 0, stmt_end_sunday |-> 6],
     [stmt_start |-> 0, stmt_end_monday |-> 7, stmt_end_sunday |-> 13]}

\* the Mondays the statement files in the folder are dated
StatementFileDates == {-7, 0, 7, 14}

\* JE01: statement_overlaps_range(week_start, week_start + 6, ...);
\* DR001: stmt_start <= file_date <= stmt_end_sunday
InWindowDates(provider, window, dates) ==
    IF provider = "je"
    THEN {d \in dates : d <= window.stmt_end_sunday /\ d + 6 >= window.stmt_start}
    ELSE {d \in dates : window.stmt_start <= d /\ d <= window.stmt_end_sunday}

\* the name Step 1 saves its output under
Step1OutputName(provider, window, dates) ==
    IF provider = "je"
    THEN [first |-> window.stmt_start, last |-> window.stmt_end_monday]
    ELSE LET matching_files == InWindowDates(provider, window, dates)
         IN  [first |-> SetMin(matching_files), last |-> SetMax(matching_files)]

\* the file Step 2 loads: the expected name, for Deliveroo else the last,
\* in descending name order, of the files whose name starts with stmt_start
Step2Load(provider, window, output) ==
    LET expected == [first |-> window.stmt_start,
                     last |-> IF provider = "je" THEN window.stmt_end_monday
                              ELSE window.stmt_end_sunday]
        matching_files == {n \in output : n.first = window.stmt_start}
    IN  IF expected \in output THEN [found |-> TRUE, name |-> expected]
        ELSE IF provider = "dr" /\ matching_files # {}
        THEN [found |-> TRUE,
              name |-> CHOOSE n \in matching_files :
                          \A o \in matching_files : n.last >= o.last]
        ELSE NotLoaded

InitHand ==
    /\ hand_provider \in {"je", "dr"}
    /\ hand_window \in StatementWindows
    /\ hand_dates \in SUBSET StatementFileDates
    /\ hand_output = {}
    /\ hand_step1 = NoName
    /\ hand_step2 = NotLoaded
    /\ hand_pc = "ready"
    /\ IdleBase /\ IdleMoreExcept("hand")

\* Step 1: no in-window file, or no row parsed from them, gives no output
RunStep1 ==
    /\ hand_pc = "ready"
    /\ \E rows \in BOOLEAN :
          IF InWindowDates(hand_provider, hand_window, hand_dates) = {} \/ ~rows
          THEN UNCHANGED <<hand_output, hand_step1>>
          ELSE LET name == Step1OutputName(hand_provider, hand_window, hand_dates)
               IN  /\ hand_output' = hand_output \cup {name}
                   /\ hand_step1' = name
    /\ hand_pc' = "parsed"
    /\ UNCHANGED <<hand_provider, hand_window, hand_dates, hand_step2>>
    /\ UNCHANGED baseVars /\ UnchangedMoreExcept("hand")

\* Step 2 up to the loading of the Step 1 file
RunStep2 ==
    /\ hand_pc = "parsed"
    /\ hand_step2' = Step2Load(hand_provider, hand_window, hand_output)
    /\ hand_pc' = "reconciled"
    /\ UNCHANGED <<hand_provider, hand_window, hand_dates, hand_output, hand_step1>>
    /\ UNCHANGED baseVars /\ UnchangedMoreExcept("hand")

NextHand == RunStep1 \/ RunStep2

SpecHand == InitHand /\ [][NextHand]_vars

\* C29: whenever Step 1 completed with an output for a statement window,
\* the Step 2 that follows for the same window finds and loads exactly that
\* file, for Just Eat and for Deliveroo, whatever the in-window statement
\* files are.
C29_StepHandOff ==
    (hand_pc = "reconciled" /\ hand_step1 # NoName) =>
        /\ hand_step2.found
        /\ hand_step2.name = hand_step1

(***************************************************************************)
(* The Just Eat Step 1 button (G10b_gui_controller.py): the click handler  *)
(* _on_je_step1_clicked on the Tk main loop and the background thread      *)
(* _run_je_step1_thread it starts.  A disabled button delivers no click.   *)
(***************************************************************************)
MaxClicks == 3

\* what run_je_pdf_parser can do to its caller
ParserOutcomes == {"output", "none", "file_not_found", "raised"}

\* mutant: the handler leaves the button enabled
StateOnAcceptNormal == "normal"

\* je_step1_btn.configure(state="disabled") on an accepted click
StateOnAccept == "disabled"

InitBtn ==
    /\ btn_state = "normal"
    /\ btn_threads = <<>>
    /\ btn_log = <<>>
    /\ btn_pc = "shown"
    /\ IdleBase /\ IdleMoreExcept("btn")

\* a click with the prerequisites met (drive selected, paths configured,
\* valid dates): the button is disabled and the thread is started; a click
\* that fails a prerequisite returns before line 2018 and changes nothing
OnJeStep1Clicked ==
    /\ btn_pc = "shown"
    /\ btn_state = "normal"
    /\ Len(btn_log) + Len(btn_threads) < MaxClicks
    /\ \E accepted \in BOOLEAN :
          IF accepted
          THEN /\ btn_state' = StateOnAccept
               /\ btn_threads' = Append(btn_threads, [pc |-> "parsing", outcome |-> "pending"])
          ELSE UNCHANGED <<btn_state, btn_threads>>
    /\ UNCHANGED <<btn_log, btn_pc>>
    /\ UNCHANGED baseVars /\ UnchangedMoreExcept("btn")

\* run_je_pdf_parser returns or raises in thread i; the except branches
\* open an error box, the others only log
ParserEnds ==
    /\ \E i \in DOMAIN btn_threads, outcome \in ParserOutcomes :
          /\ btn_threads[i].pc = "parsing"
          /\ btn_threads' = [btn_threads EXCEPT ![i] =
                [pc |-> IF outcome \in {"file_not_found", "raised"}
                        THEN "error_box" ELSE "finally",
                 outcome |-> outcome]]
    /\ UNCHANGED <<btn_state, btn_log, btn_pc>>
    /\ UNCHANGED baseVars /\ UnchangedMoreExcept("btn")

\* the user closes the error box of thread i
ErrorBoxClosed ==
    /\ \E i \in DOMAIN btn_threads :
          /\ btn_threads[i].pc = "error_box"
          /\ btn_threads' = [btn_threads EXCEPT ![i].pc = "finally"]
    /\ UNCHANGED <<btn_state, btn_log, btn_pc>>
    /\ UNCHANGED baseVars /\ UnchangedMoreExcept("btn")

\* the finally clause of thread i: the button is enabled, the thread ends
ThreadFinally ==
    /\ \E i \in DOMAIN btn_threads :
          /\ btn_threads[i].pc = "finally"
          /\ btn_state' = "normal"
          /\ btn_log' = Append(btn_log, btn_threads[i].outcome)
          /\ btn_threads' = [k \in 1..(Len(btn_threads) - 1) |->
                                IF k < i THEN btn_threads[k] ELSE btn_threads[k + 1]]
    /\ UNCHANGED btn_pc
    /\ UNCHANGED baseVars /\ UnchangedMoreExcept("btn")

NextBtn == OnJeStep1Clicked \/ ParserEnds \/ ErrorBoxClosed \/ ThreadFinally

SpecBtn == InitBtn /\ [][NextBtn]_vars

\* the thread is scheduled, the parser comes back (the folder is finite),
\* and the user closes an error box that is open
SpecBtnFair ==
    /\ SpecBtn
    /\ WF_vars(ParserEnds) /\ WF_vars(ErrorBoxClosed) /\ WF_vars(ThreadFinally)

====
